---------------------------- MODULE Spec2Model ----------------------------
(***************************************************************************)
(* A model of the hlas Registry (src/src/core/registry.ts), of the         *)
(* window.hlas facade (src/src/index.ts) and of the overlay drivers the    *)
(* Registry owns.                                                          *)
(*                                                                         *)
(* JavaScript strings are sequences of one-character strings, so that      *)
(* toLowerCase, includes and join are computed and not assumed.  The       *)
(* values undefined and null are the one-token sequences Undefined and     *)
(* Null, which no string over Alphabet equals.                             *)
(***************************************************************************)
EXTENDS Integers, Sequences, FiniteSets, TLC

VARIABLES
    components,   \* Registry.components: the Map, as the sequence of its entries in insertion order
    attrs,        \* the data-hlas-* attributes of every DOM element
    listening,    \* the elements that carry an hlas:execute listener
    activeElement,\* document.activeElement
    effects,      \* the platform calls made by the latest operation, in order
    ret,          \* the latest operation: its name, receiver, arguments and result
    lastReg,      \* history: the arguments of the latest register call of each id
    insertOrder,  \* history: the ids present, in the order they were inserted
    lastRegId,    \* history: the id of the latest register call
    describe,     \* per Describe component: whether it is mounted, its items or value prop
    hooks,        \* per component instance: whether it is mounted, its actionsRef.current, its name
    hlInst,       \* Registry.highlightDriverInstance (0 = undefined)
    ctorPending,  \* the constructor's setTimeout(..., 0) has not fired yet
    hlDrivers,    \* every highlight driver instance created so far: who created it, what it shows
    timers,       \* the pending teardown timers of highlight, in the order they were scheduled
    now,          \* the clock, in ticks
    hlCall,       \* history: the latest highlight call that showed an overlay
    tourInst,     \* Registry.tourDriverInstance (0 = undefined)
    activeTour,   \* Registry.activeTour
    tours,        \* every tour driver instance constructed so far: whether it is presenting
    tourSteps,    \* the step sequence the current tour driver instance was configured with
    tourDestroys  \* history: per tour driver instance, the destroy() calls startTour made on it

vars == <<components, attrs, listening, activeElement, effects, ret, lastReg,
          insertOrder, lastRegId, hooks, describe,
          hlInst, ctorPending, hlDrivers, timers, now, hlCall,
          tourInst, activeTour, tours, tourSteps, tourDestroys>>

regVars  == <<components, attrs, listening, activeElement, lastReg, insertOrder,
             lastRegId, hooks, describe>>
hlVars   == <<hlInst, ctorPending, hlDrivers, timers, now, hlCall>>
tourVars == <<tourInst, activeTour, tours, tourSteps, tourDestroys>>

---------------------------------------------------------------------------
(* Values *)

Undefined == <<"undefined">>
Null      == <<"null">>
NoElement == "none"

Truthy(s) == s # Undefined /\ s # Null /\ s # <<>>

Alphabet == {"a", "A", "b"}

MaxLen == 2

Strs(n) == UNION {[1..k -> Alphabet] : k \in 0..n}

(* String.prototype.toLowerCase, per character *)
LowerChar(c) == IF c = "A" THEN "a" ELSE IF c = "B" THEN "b" ELSE c

toLowerCase(s) == [i \in 1..Len(s) |-> LowerChar(s[i])]

(* String.prototype.includes: some position of s starts a copy of q *)
includes(s, q) ==
    \E i \in 0..(Len(s) - Len(q)) : \A j \in 1..Len(q) : s[i + j] = q[j]

(* Array.prototype.join(",") over strings *)
RECURSIVE join(_)
join(ss) ==
    IF Len(ss) = 0 THEN <<>>
    ELSE IF Len(ss) = 1 THEN ss[1]
    ELSE ss[1] \o <<",">> \o join(Tail(ss))

---------------------------------------------------------------------------
(* The Map *)

MapHas(m, k) == \E i \in 1..Len(m) : m[i].id = k

MapIndex(m, k) == CHOOSE i \in 1..Len(m) : m[i].id = k

MapGet(m, k) == m[MapIndex(m, k)]

MapSetMoveToEnd(m, k, v) == Append(SelectSeq(m, LAMBDA c : c.id # k), v)

(* Map.prototype.set: an existing key keeps its position *)
MapSet(m, k, v) ==
    IF MapHas(m, k) THEN [m EXCEPT ![MapIndex(m, k)] = v] ELSE Append(m, v)

MapClear(m, k) == <<>>

(* Map.prototype.delete *)
MapDelete(m, k) == SelectSeq(m, LAMBDA c : c.id # k)


---------------------------------------------------------------------------
(* The inputs of the registry operations *)

Ids == {<<"k1">>, <<"k2">>, <<"k3">>}

Elements == {"e1", "e2"}

(* e1 is a button, e2 a div without tabindex: focus() on e2 does nothing *)
Focusable == {"e1"}

ActionX == [id |-> <<"x">>, name |-> <<"x">>]

ActionY == [id |-> <<"y">>, name |-> <<"y">>]

ActionLists == {<<>>, <<ActionX, ActionY>>}

RegIds == {<<"k1">>, <<"k2">>}

RegNames == {<<"A", "b">>, <<"b">>}

RegDescriptions == {Undefined, <<"b", "A">>}

RegQueries == {<<>>, <<"A">>}

NoAttrs ==
    [id |-> Null, name |-> Null, description |-> Null, actions |-> Null, content |-> Null,
     action |-> Null]

(* The receiver of a call: the registry itself, or window.hlas as built by   *)
(* src/src/index.ts (141-148) or by src/unnamed/part_000 (70-86).            *)
Receivers == {"registry", "index", "part_000"}

(* Whether `this` is the Registry inside the method body.  index.ts stores   *)
(* the unbound methods (find: registry.find), so window.hlas.find(q) runs    *)
(* find with this = window.hlas, which has no components field; part_000     *)
(* stores arrow functions that call registry.find(q).                        *)
ThisIsRegistry(via) == via \in {"registry", "part_000"}

TypeError(op, via, args) ==
    [op |-> op, via |-> via, args |-> args, threw |-> TRUE, val |-> Undefined]

Returned(op, via, args, val) ==
    [op |-> op, via |-> via, args |-> args, threw |-> FALSE, val |-> val]

---------------------------------------------------------------------------
(* Registry.register *)

NewEntry(id, element, name, actions, description) ==
    [id |-> id, element |-> element, actions |-> actions, name |-> name,
     description |-> description]

ActionIds(actions) == [i \in 1..Len(actions) |-> actions[i].id]

(* the setAttribute calls of register, applied to the element's attributes *)
Stamp(old, id, name, actions, description) ==
    [old EXCEPT
        !.id = id,
        !.name = name,
        !.description = IF Truthy(description) THEN description ELSE @,
        !.actions = IF Len(actions) > 0 THEN join(ActionIds(actions)) ELSE @]

RegisterMerge(m, id, element, name, actions, description) ==
    IF MapHas(m, id)
    THEN MapSet(m, id, NewEntry(id, MapGet(m, id).element, name, actions, description))
    ELSE MapSet(m, id, NewEntry(id, element, name, actions, description))

RegisterIfAbsent(m, id, element, name, actions, description) ==
    IF MapHas(m, id) THEN m
    ELSE MapSet(m, id, NewEntry(id, element, name, actions, description))

RegisterSet(m, id, element, name, actions, description) ==
    MapSet(m, id, NewEntry(id, element, name, actions, description))

RegisterRetargeting(id, element, name, actions, description) ==
    /\ components' = RegisterSet(components, id, element, name, actions, description)
    /\ attrs' = [attrs EXCEPT ![element] = Stamp(@, id, name, actions, description)]
    /\ lastReg' = [lastReg EXCEPT ![id] = NewEntry(id, element, name, actions, description)]
    /\ insertOrder' = IF \E i \in 1..Len(insertOrder) : insertOrder[i] = id
                      THEN insertOrder ELSE Append(insertOrder, id)
    /\ lastRegId' = id
    /\ effects' = <<>>
    /\ ret' = Returned("register", "registry", <<id>>, id)
    /\ tourSteps' = [i \in 1..Len(tourSteps) |->
                       IF MapHas(components, id)
                          /\ tourSteps[i].element = MapGet(components, id).element
                       THEN [tourSteps[i] EXCEPT !.element = element]
                       ELSE tourSteps[i]]
    /\ UNCHANGED <<listening, activeElement, hooks, describe>>
    /\ UNCHANGED hlVars
    /\ UNCHANGED <<tourInst, activeTour, tours, tourDestroys>>

Register(id, element, name, actions, description) ==
    /\ components' = RegisterSet(components, id, element, name, actions, description)
    /\ attrs' = [attrs EXCEPT ![element] = Stamp(@, id, name, actions, description)]
    /\ lastReg' = [lastReg EXCEPT ![id] = NewEntry(id, element, name, actions, description)]
    /\ insertOrder' = IF \E i \in 1..Len(insertOrder) : insertOrder[i] = id
                      THEN insertOrder ELSE Append(insertOrder, id)
    /\ lastRegId' = id
    /\ effects' = <<>>
    /\ ret' = Returned("register", "registry", <<id>>, id)
    /\ UNCHANGED <<listening, activeElement, hooks, describe>>
    /\ UNCHANGED hlVars
    /\ UNCHANGED tourVars

(* Registry.unregister *)
Unregister(id) ==
    /\ components' = MapDelete(components, id)
    /\ lastReg' = [lastReg EXCEPT ![id] = Undefined]
    /\ insertOrder' = SelectSeq(insertOrder, LAMBDA k : k # id)
    /\ UNCHANGED lastRegId
    /\ effects' = <<>>
    /\ ret' = Returned("unregister", "registry", <<id>>, MapHas(components, id))
    /\ UNCHANGED <<attrs, listening, activeElement, hooks, describe>>
    /\ UNCHANGED hlVars
    /\ UNCHANGED tourVars

---------------------------------------------------------------------------
(* Registry.find *)

Matches(c, lowerQuery) ==
    \/ includes(toLowerCase(c.name), lowerQuery)
    \/ (Truthy(c.description) /\ includes(toLowerCase(c.description), lowerQuery))

findRawQuery(m, query) == SelectSeq(m, LAMBDA c : Matches(c, query))

find(m, query) == SelectSeq(m, LAMBDA c : Matches(c, toLowerCase(query)))

Find(via, query) ==
    /\ ret' = IF ThisIsRegistry(via)
              THEN Returned("find", via, <<query>>, find(components, query))
              ELSE TypeError("find", via, <<query>>)
    /\ effects' = <<>>
    /\ UNCHANGED regVars
    /\ UNCHANGED hlVars
    /\ UNCHANGED tourVars

---------------------------------------------------------------------------
(* Registry.readScreen *)

Digits == {"0", "1", "2", "3", "4", "5", "6", "7", "8", "9"}

IsNumberText(t) ==
    /\ Len(t) > 0
    /\ \A i \in 1..Len(t) : t[i] \in Digits
    /\ Len(t) > 1 => t[1] # "0"

IsStringText(t) ==
    /\ Len(t) >= 2
    /\ t[1] = "\""
    /\ t[Len(t)] = "\""
    /\ \A i \in 2..(Len(t) - 1) : t[i] \notin {"\"", "\\"}

(* a JavaScript value: its type and its canonical text *)
JsValue(type, text) == [type |-> type, text |-> text]

RECURSIVE ValueEnd(_, _), ElementsEnd(_, _), MembersEnd(_, _)

(* the position after the JSON string that starts at i, or 0 *)
StringEnd(t, i) ==
    IF i > Len(t) \/ t[i] # "\"" THEN 0
    ELSE LET closes == {j \in (i + 1)..Len(t) : t[j] = "\""}
         IN  IF closes = {} THEN 0
             ELSE LET j == CHOOSE c \in closes : \A d \in closes : c <= d
                  IN  IF \E k \in (i + 1)..(j - 1) : t[k] = "\\" THEN 0 ELSE j + 1

(* the position after the JSON number that starts at the digit at i *)
NumberEnd(t, i) ==
    IF t[i] = "0" THEN i + 1
    ELSE LET rest == {j \in (i + 1)..Len(t) : t[j] \notin Digits}
         IN  IF rest = {} THEN Len(t) + 1
             ELSE CHOOSE c \in rest : \A d \in rest : c <= d

LiteralAt(t, i, lit) ==
    /\ i + Len(lit) - 1 <= Len(t)
    /\ SubSeq(t, i, i + Len(lit) - 1) = lit

(* the position after the JSON value that starts at i, or 0 if none does *)
ValueEnd(t, i) ==
    IF i > Len(t) THEN 0
    ELSE IF t[i] = "\"" THEN StringEnd(t, i)
    ELSE IF t[i] \in Digits THEN NumberEnd(t, i)
    ELSE IF LiteralAt(t, i, <<"t", "r", "u", "e">>) THEN i + 4
    ELSE IF LiteralAt(t, i, <<"f", "a", "l", "s", "e">>) THEN i + 5
    ELSE IF LiteralAt(t, i, <<"n", "u", "l", "l">>) THEN i + 4
    ELSE IF t[i] = "["
    THEN IF LiteralAt(t, i, <<"[", "]">>) THEN i + 2 ELSE ElementsEnd(t, i + 1)
    ELSE IF t[i] = "{"
    THEN IF LiteralAt(t, i, <<"{", "}">>) THEN i + 2 ELSE MembersEnd(t, i + 1)
    ELSE 0

(* value ("," value)* "]" *)
ElementsEnd(t, i) ==
    LET e == ValueEnd(t, i)
    IN  IF e = 0 \/ e > Len(t) THEN 0
        ELSE IF t[e] = "]" THEN e + 1
        ELSE IF t[e] = "," THEN ElementsEnd(t, e + 1)
        ELSE 0

(* string ":" value ("," string ":" value)* "}" *)
MembersEnd(t, i) ==
    LET k == StringEnd(t, i)
    IN  IF k = 0 \/ k > Len(t) \/ t[k] # ":" THEN 0
        ELSE LET e == ValueEnd(t, k + 1)
             IN  IF e = 0 \/ e > Len(t) THEN 0
                 ELSE IF t[e] = "}" THEN e + 1
                 ELSE IF t[e] = "," THEN MembersEnd(t, e + 1)
                 ELSE 0

(* JSON.parse(text) on a text without white space, escapes, signs,          *)
(* fractions or exponents: a number, a literal, a string, or an array or    *)
(* object, which is kept as its JSON text; ok is false where JSON.parse     *)
(* throws a SyntaxError                                                     *)
JsonParse(t) ==
    IF IsNumberText(t) THEN [ok |-> TRUE, value |-> JsValue("number", t)]
    ELSE IF t \in {<<"t", "r", "u", "e">>, <<"f", "a", "l", "s", "e">>}
    THEN [ok |-> TRUE, value |-> JsValue("boolean", t)]
    ELSE IF t = <<"n", "u", "l", "l">> THEN [ok |-> TRUE, value |-> JsValue("null", t)]
    ELSE IF IsStringText(t)
    THEN [ok |-> TRUE, value |-> JsValue("string", SubSeq(t, 2, Len(t) - 1))]
    ELSE IF Len(t) >= 2 /\ t[1] \in {"{", "["} /\ ValueEnd(t, 1) = Len(t) + 1
    THEN [ok |-> TRUE, value |-> JsValue("object", t)]
    ELSE [ok |-> FALSE, value |-> JsValue("undefined", <<>>)]

(* let content = undefined; if (contentAttr) { try { JSON.parse } catch { raw } } *)
ScreenContent(attr) ==
    IF ~Truthy(attr) THEN JsValue("undefined", <<>>)
    ELSE IF JsonParse(attr).ok THEN JsonParse(attr).value
    ELSE JsValue("string", attr)

ScreenComponent(c) ==
    [id |-> c.id, name |-> c.name, description |-> c.description, visible |-> TRUE,
     actions |-> c.actions, content |-> ScreenContent(attrs[c.element].content)]

readScreen(m) == [i \in 1..Len(m) |-> ScreenComponent(m[i])]

ReadScreen(via) ==
    /\ ret' = IF ThisIsRegistry(via)
              THEN Returned("readScreen", via, <<>>, readScreen(components))
              ELSE TypeError("readScreen", via, <<>>)
    /\ effects' = <<>>
    /\ UNCHANGED regVars
    /\ UNCHANGED hlVars
    /\ UNCHANGED tourVars

(* the texts a component writes to data-hlas-content: the empty string,    *)
(* JSON numbers, literals, strings, arrays and objects, and texts that are  *)
(* not JSON                                                                 *)
ContentTexts ==
    { <<>>,
      <<"4", "2">>,
      <<"0", "1">>,
      <<"t", "r", "u", "e">>,
      <<"\"", "a", "\"">>,
      <<"a", "b">>,
      <<"{", "\"", "k", "\"", ":", "\"", "v", "\"", "}">>,
      <<"[", "1", ",", "2", "]">>,
      <<"[", "1", ",", "]">>,
      <<"{", "k", "}">> }

(* element.setAttribute("data-hlas-content", text) *)
SetContentAttr(el, text) ==
    /\ attrs' = [attrs EXCEPT ![el].content = text]
    /\ effects' = <<>>
    /\ ret' = Returned("setAttribute", "registry", <<text>>, Undefined)
    /\ UNCHANGED <<components, listening, activeElement, lastReg, insertOrder, lastRegId, hooks, describe>>
    /\ UNCHANGED hlVars
    /\ UNCHANGED tourVars

(* element.removeAttribute("data-hlas-content") *)
RemoveContentAttr(el) ==
    /\ attrs[el].content # Null
    /\ attrs' = [attrs EXCEPT ![el].content = Null]
    /\ effects' = <<>>
    /\ ret' = Returned("removeAttribute", "registry", <<>>, Undefined)
    /\ UNCHANGED <<components, listening, activeElement, lastReg, insertOrder, lastRegId, hooks, describe>>
    /\ UNCHANGED hlVars
    /\ UNCHANGED tourVars

---------------------------------------------------------------------------
(* Registry.execute, Registry.focus and the component-side listener *)

EmptyObject == <<"{}">>

ExecActionIds == {<<"x">>, <<"z">>}

ExecParams == {Undefined, EmptyObject, <<"{value:42}">>}

NoDetail == [id |-> Undefined, actionId |-> Undefined, params |-> Undefined]

Effect(call, target, type, detail) ==
    [call |-> call, target |-> target, type |-> type, detail |-> detail, inst |-> 0]

(* a call of driver instance inst: driver(), highlight(), drive(), destroy() *)
DriverCall(call, inst, target) ==
    [call |-> call, target |-> target, type |-> "", detail |-> NoDetail, inst |-> inst]

ConsoleError == Effect("console.error", NoElement, "", NoDetail)

(* a || b *)
JsOr(a, b) == IF Truthy(a) THEN a ELSE b

ExecuteDetailRaw(id, actionId, params) ==
    [id |-> id, actionId |-> actionId, params |-> params]

ExecuteDetail(id, actionId, params) ==
    [id |-> id, actionId |-> actionId, params |-> JsOr(params, EmptyObject)]

(* The component instances that register themselves.  X and Y call          *)
(* useHlasActions; React's useId gives them the same id because they are    *)
(* rendered in two React roots (ids are unique within one root only).  Z is *)
(* a Describe.Button that is given the ref of X, so that it registers the   *)
(* element of X under its own id; it has no actions and no listener.        *)
Owners == {"X", "Y", "Z"}

OwnerOrder == <<"X", "Y", "Z">>

UsesHook(o) == o \in {"X", "Y"}

(* const reactId = useId() *)
ReactId(o) == IF o = "Z" THEN <<"k2">> ELSE <<"k1">>

(* elementRef.current *)
RefElement(o) == IF o = "Y" THEN "e2" ELSE "e1"

(* the keys of the action maps a component passes to the hook *)
ActionMaps(o) == IF o = "X" THEN {<<<<"x">>, <<"y">>>>, <<<<"x">>>>}
                 ELSE IF o = "Y" THEN {<<<<"x">>>>}
                 ELSE {<<>>}

OwnerNames == {<<"b">>, <<"A", "b">>}

(* which of the action map objects of a component a key sequence is: two    *)
(* maps of a component are different objects with different functions,      *)
(* also under a key they share                                              *)
ActionMapNo(keys) == Len(keys)

Unmounted == [mounted |-> FALSE, actions |-> <<>>, registered |-> <<>>, name |-> <<>>]

NoHooks == [o \in Owners |-> Unmounted]

(* Object.entries(actions).map(([id]) => ({id, name: id})) *)
ActionSchemas(keys) == [i \in 1..Len(keys) |-> [id |-> keys[i], name |-> keys[i]]]

HasKey(keys, actionId) == \E i \in 1..Len(keys) : keys[i] = actionId

(* the properties every object literal inherits from Object.prototype that  *)
(* are functions; the model's action ids name one of them                   *)
ObjectPrototype == {<<"toString">>}

HandlerDetail(o, actionId, params) ==
    [id |-> ReactId(o), actionId |-> actionId, params |-> params]

(* handleExecute of o: actionsRef.current[actionId] is the own property if  *)
(* the map has that key, else the inherited one, else undefined             *)
(* the call of the function that the action map with these keys has under  *)
(* actionId; inst says which map object it belongs to                       *)
ActionCall(o, keys, actionId, params) ==
    [Effect("action", o, "", HandlerDetail(o, actionId, params))
        EXCEPT !.inst = ActionMapNo(keys)]

handleExecuteClosure(o, detail) ==
    <<Effect("listener", o, "hlas:execute", detail)>>
    \o (IF HasKey(hooks[o].registered, detail.actionId)
        THEN <<ActionCall(o, hooks[o].registered, detail.actionId, detail.params)>>
        ELSE IF detail.actionId \in ObjectPrototype
        THEN <<Effect("inherited", o, "", HandlerDetail(o, detail.actionId, detail.params))>>
        ELSE <<Effect("console.error", o, "", HandlerDetail(o, detail.actionId, Undefined))>>)

handleExecute(o, detail) ==
    <<Effect("listener", o, "hlas:execute", detail)>>
    \o (IF HasKey(hooks[o].actions, detail.actionId)
        THEN <<ActionCall(o, hooks[o].actions, detail.actionId, detail.params)>>
        ELSE IF detail.actionId \in ObjectPrototype
        THEN <<Effect("inherited", o, "", HandlerDetail(o, detail.actionId, detail.params))>>
        ELSE <<Effect("console.error", o, "", HandlerDetail(o, detail.actionId, Undefined))>>)

RECURSIVE HookHandlers(_, _, _)
(* the listeners that useHlasActions attached to el and has not removed *)
HookHandlers(owners, el, detail) ==
    IF Len(owners) = 0 THEN <<>>
    ELSE (IF UsesHook(Head(owners)) /\ hooks[Head(owners)].mounted
             /\ RefElement(Head(owners)) = el
          THEN handleExecute(Head(owners), detail) ELSE <<>>)
         \o HookHandlers(Tail(owners), el, detail)

(* element.dispatchEvent(event): the event reaches the listener of the      *)
(* target, if one is attached (a CustomEvent does not bubble)               *)
DispatchEvent(el, type, detail) ==
    <<Effect("dispatchEvent", el, type, detail)>>
    \o (IF el \in listening THEN <<Effect("handleExecute", el, type, detail)>> ELSE <<>>)
    \o HookHandlers(OwnerOrder, el, detail)

ExecuteDoValidated(via, id, actionId, params) ==
    IF ~ThisIsRegistry(via)
    THEN [ret |-> TypeError("execute", via, <<id, actionId, params>>), effects |-> <<>>]
    ELSE IF \/ ~MapHas(components, id)
            \/ \A i \in 1..Len(MapGet(components, id).actions) :
                  MapGet(components, id).actions[i].id # actionId
    THEN [ret |-> Returned("execute", via, <<id, actionId, params>>, FALSE),
          effects |-> <<ConsoleError>>]
    ELSE [ret |-> Returned("execute", via, <<id, actionId, params>>, TRUE),
          effects |-> DispatchEvent(MapGet(components, id).element, "hlas:execute",
                                    ExecuteDetail(id, actionId, params))]

ExecuteDo(via, id, actionId, params) ==
    IF ~ThisIsRegistry(via)
    THEN [ret |-> TypeError("execute", via, <<id, actionId, params>>), effects |-> <<>>]
    ELSE IF ~MapHas(components, id)
    THEN [ret |-> Returned("execute", via, <<id, actionId, params>>, FALSE),
          effects |-> <<ConsoleError>>]
    ELSE [ret |-> Returned("execute", via, <<id, actionId, params>>, TRUE),
          effects |-> DispatchEvent(MapGet(components, id).element, "hlas:execute",
                                    ExecuteDetail(id, actionId, params))]

Execute(via, id, actionId, params) ==
    /\ ret' = ExecuteDo(via, id, actionId, params).ret
    /\ effects' = ExecuteDo(via, id, actionId, params).effects
    /\ UNCHANGED regVars
    /\ UNCHANGED hlVars
    /\ UNCHANGED tourVars

FocusDoIfFocusable(via, id) ==
    IF ~ThisIsRegistry(via)
    THEN [ret |-> TypeError("focus", via, <<id>>), effects |-> <<>>,
          activeElement |-> activeElement]
    ELSE IF ~MapHas(components, id) \/ MapGet(components, id).element \notin Focusable
    THEN [ret |-> Returned("focus", via, <<id>>, FALSE), effects |-> <<ConsoleError>>,
          activeElement |-> activeElement]
    ELSE LET el == MapGet(components, id).element
         IN  [ret |-> Returned("focus", via, <<id>>, TRUE),
              effects |-> <<Effect("focus", el, "", NoDetail)>>,
              activeElement |-> el]

FocusDo(via, id) ==
    IF ~ThisIsRegistry(via)
    THEN [ret |-> TypeError("focus", via, <<id>>), effects |-> <<>>,
          activeElement |-> activeElement]
    ELSE IF ~MapHas(components, id)
    THEN [ret |-> Returned("focus", via, <<id>>, FALSE), effects |-> <<ConsoleError>>,
          activeElement |-> activeElement]
    ELSE LET el == MapGet(components, id).element
         IN  [ret |-> Returned("focus", via, <<id>>, TRUE),
              effects |-> <<Effect("focus", el, "", NoDetail)>>,
              activeElement |-> IF el \in Focusable THEN el ELSE activeElement]

Focus(via, id) ==
    /\ ret' = FocusDo(via, id).ret
    /\ effects' = FocusDo(via, id).effects
    /\ activeElement' = FocusDo(via, id).activeElement
    /\ UNCHANGED <<components, attrs, listening, lastReg, insertOrder, lastRegId, hooks, describe>>
    /\ UNCHANGED hlVars
    /\ UNCHANGED tourVars

(* useHlasActions: element.addEventListener("hlas:execute", handleExecute) *)
AddEventListener(el) ==
    /\ el \notin listening
    /\ listening' = listening \cup {el}
    /\ effects' = <<>>
    /\ ret' = Returned("addEventListener", "registry", <<>>, Undefined)
    /\ UNCHANGED <<components, attrs, activeElement, lastReg, insertOrder, lastRegId, hooks, describe>>
    /\ UNCHANGED hlVars
    /\ UNCHANGED tourVars

(* useHlasActions cleanup: element.removeEventListener("hlas:execute", handleExecute) *)
RemoveEventListener(el) ==
    /\ el \in listening
    /\ listening' = listening \ {el}
    /\ effects' = <<>>
    /\ ret' = Returned("removeEventListener", "registry", <<>>, Undefined)
    /\ UNCHANGED <<components, attrs, activeElement, lastReg, insertOrder, lastRegId, hooks, describe>>
    /\ UNCHANGED hlVars
    /\ UNCHANGED tourVars

---------------------------------------------------------------------------
(* useHlasActions and Describe.Button: mount, render again, unmount *)

(* the register effect: registry.register(reactId, element, name, schemas,  *)
(* description) and, in the hook, addEventListener                          *)
Mount(o, actions, name) ==
    /\ ~hooks[o].mounted
    /\ actions \in ActionMaps(o)
    /\ LET id == ReactId(o)
           el == RefElement(o)
           schemas == IF UsesHook(o) THEN ActionSchemas(actions) ELSE <<>>
       IN  /\ components' = RegisterSet(components, id, el, name, schemas, Undefined)
           /\ attrs' = [attrs EXCEPT ![el] = Stamp(@, id, name, schemas, Undefined)]
           /\ lastReg' = [lastReg EXCEPT ![id] = NewEntry(id, el, name, schemas, Undefined)]
           /\ insertOrder' = IF \E i \in 1..Len(insertOrder) : insertOrder[i] = id
                             THEN insertOrder ELSE Append(insertOrder, id)
           /\ lastRegId' = id
    /\ hooks' = [hooks EXCEPT ![o] = [mounted |-> TRUE, actions |-> actions,
                                      registered |-> actions, name |-> name]]
    /\ effects' = <<>>
    /\ ret' = Returned("mount", "registry", <<o>>, ReactId(o))
    /\ UNCHANGED <<listening, activeElement, describe>>
    /\ UNCHANGED hlVars
    /\ UNCHANGED tourVars

UnmountKeepingEntry(o) ==
    /\ hooks[o].mounted
    /\ hooks' = [hooks EXCEPT ![o] = Unmounted]
    /\ effects' = <<>>
    /\ ret' = Returned("unmount", "registry", <<o>>, Undefined)
    /\ UNCHANGED <<components, attrs, lastReg, insertOrder, lastRegId, listening,
                   activeElement, describe>>
    /\ UNCHANGED hlVars
    /\ UNCHANGED tourVars

(* the cleanup of the register effect: removeEventListener (in the hook)    *)
(* and registry.unregister(id)                                              *)
Unmount(o) ==
    /\ hooks[o].mounted
    /\ hooks' = [hooks EXCEPT ![o] = Unmounted]
    /\ components' = MapDelete(components, ReactId(o))
    /\ lastReg' = [lastReg EXCEPT ![ReactId(o)] = Undefined]
    /\ insertOrder' = SelectSeq(insertOrder, LAMBDA k : k # ReactId(o))
    /\ effects' = <<>>
    /\ ret' = Returned("unmount", "registry", <<o>>, Undefined)
    /\ UNCHANGED <<attrs, lastRegId, listening, activeElement, describe>>
    /\ UNCHANGED hlVars
    /\ UNCHANGED tourVars

(* a render with other props.  useEffect(..., [actions]) stores the new     *)
(* action map in actionsRef; the register effect has the dependencies       *)
(* [name, description], so it runs its cleanup and registers again only     *)
(* when the name changed, with the schemas of the new action map;           *)
(* registered is the action map that the latest run of the register effect  *)
(* closed over.                                                             *)
Rerender(o, actions, name) ==
    /\ hooks[o].mounted
    /\ actions \in ActionMaps(o)
    /\ <<actions, name>> # <<hooks[o].actions, hooks[o].name>>
    /\ hooks' = [hooks EXCEPT ![o] =
                    [mounted |-> TRUE, actions |-> actions, name |-> name,
                     registered |-> IF name = hooks[o].name THEN hooks[o].registered
                                    ELSE actions]]
    /\ IF name = hooks[o].name
       THEN UNCHANGED <<components, attrs, lastReg, insertOrder, lastRegId>>
       ELSE LET id == ReactId(o)
                el == RefElement(o)
                schemas == IF UsesHook(o) THEN ActionSchemas(actions) ELSE <<>>
            IN  /\ components' = RegisterSet(MapDelete(components, id), id, el, name,
                                             schemas, Undefined)
                /\ attrs' = [attrs EXCEPT ![el] = Stamp(@, id, name, schemas, Undefined)]
                /\ lastReg' = [lastReg EXCEPT
                                 ![id] = NewEntry(id, el, name, schemas, Undefined)]
                /\ insertOrder' = Append(SelectSeq(insertOrder, LAMBDA k : k # id), id)
                /\ lastRegId' = id
    /\ effects' = <<>>
    /\ ret' = Returned("render", "registry", <<o>>, Undefined)
    /\ UNCHANGED <<listening, activeElement, describe>>
    /\ UNCHANGED hlVars
    /\ UNCHANGED tourVars

---------------------------------------------------------------------------
(* action(schema, Component): the wrapper that marks the element, around a  *)
(* component that registers the same element with useHlasActions            *)

(* the schemas given to action(); none has parameters, so that              *)
(* data-hlas-parameters is never written                                    *)
WrapSchemas ==
    {[id |-> <<"x">>, name |-> <<"A">>, description |-> <<"A", "b">>],
     [id |-> <<"y">>, name |-> <<"b">>, description |-> Undefined]}

(* the setAttribute calls of the ActionWrapper effect *)
WrapStamp(old, schema) ==
    [old EXCEPT
        !.action = schema.id,
        !.name = schema.name,
        !.description = IF Truthy(schema.description) THEN schema.description ELSE @]

(* the removeAttribute calls of the ActionWrapper cleanup *)
WrapClear(old) ==
    [old EXCEPT !.action = Null, !.name = Null, !.description = Null]

(* the mount of a component that calls useHlasActions and renders the       *)
(* wrapped component with the returned ref.  The wrapper is a descendant of *)
(* the caller of the hook and React runs the effects of a descendant first: *)
(* the ActionWrapper effect marks the element, then the register effect of  *)
(* the hook stamps it.                                                      *)
MountWrapped(o, schema, actions, name, description) ==
    /\ ~hooks[o].mounted
    /\ UsesHook(o)
    /\ actions \in ActionMaps(o)
    /\ LET id == ReactId(o)
           el == RefElement(o)
           schemas == ActionSchemas(actions)
       IN  /\ components' = RegisterSet(components, id, el, name, schemas, description)
           /\ attrs' = [attrs EXCEPT
                          ![el] = Stamp(WrapStamp(@, schema), id, name, schemas, description)]
           /\ lastReg' = [lastReg EXCEPT ![id] = NewEntry(id, el, name, schemas, description)]
           /\ insertOrder' = IF \E i \in 1..Len(insertOrder) : insertOrder[i] = id
                             THEN insertOrder ELSE Append(insertOrder, id)
           /\ lastRegId' = id
    /\ hooks' = [hooks EXCEPT ![o] = [mounted |-> TRUE, actions |-> actions,
                                      registered |-> actions, name |-> name]]
    /\ effects' = <<>>
    /\ ret' = Returned("mountWrapped", "registry", <<o, schema, name, description>>,
                       ReactId(o))
    /\ UNCHANGED <<listening, activeElement, describe>>
    /\ UNCHANGED hlVars
    /\ UNCHANGED tourVars

(* the unmount of that component: the cleanup of the hook removes the       *)
(* listener and unregisters, the cleanup of the wrapper removes its markers *)
UnmountWrapped(o) ==
    /\ hooks[o].mounted
    /\ attrs[RefElement(o)].action # Null
    /\ hooks' = [hooks EXCEPT ![o] = Unmounted]
    /\ components' = MapDelete(components, ReactId(o))
    /\ lastReg' = [lastReg EXCEPT ![ReactId(o)] = Undefined]
    /\ insertOrder' = SelectSeq(insertOrder, LAMBDA k : k # ReactId(o))
    /\ attrs' = [attrs EXCEPT ![RefElement(o)] = WrapClear(@)]
    /\ effects' = <<>>
    /\ ret' = Returned("unmountWrapped", "registry", <<o>>, Undefined)
    /\ UNCHANGED <<lastRegId, listening, activeElement, describe>>
    /\ UNCHANGED hlVars
    /\ UNCHANGED tourVars

---------------------------------------------------------------------------
(* Describe.List and Describe.ListItem *)

MaxRenders == 3

(* the JavaScript value undefined *)
JsUndefined == JsValue("undefined", <<>>)

(* JSON.stringify(v) of a number, a boolean, null, a string without quotes  *)
(* or escapes, or an object, which is held as its JSON text                 *)
JsonStringify(v) ==
    IF v.type = "string" THEN <<"\"">> \o v.text \o <<"\"">> ELSE v.text

(* JSON.stringify(items) of an array *)
JsonStringifyArray(items) ==
    <<"[">> \o join([i \in 1..Len(items) |-> JsonStringify(items[i])]) \o <<"]">>

(* String(v) of a string, a number or a boolean *)
String(v) == v.text

(* typeof value === "object" (null included) *)
TypeofObject(v) == v.type \in {"object", "null"}

(* const id = useId() *)
DescribeId(d) == IF d = "List" THEN <<"k2">> ELSE <<"k1">>

(* resolvedRef.current *)
DescribeElement(d) == IF d = "List" THEN "e2" ELSE "e1"

(* the items props given to the list: none, the empty array, arrays *)
ItemsPool ==
    { [given |-> FALSE, items |-> <<>>],
      [given |-> TRUE, items |-> <<>>],
      [given |-> TRUE, items |-> <<JsValue("number", <<"1">>), JsValue("number", <<"2">>)>>],
      [given |-> TRUE, items |-> <<JsValue("string", <<"a">>)>>] }

(* the value props given to the list item *)
ItemValues ==
    { JsUndefined,
      JsValue("string", <<"a", "b">>),
      JsValue("string", <<"4", "2">>),
      JsValue("string", <<"t", "r", "u", "e">>),
      JsValue("string", <<>>),
      JsValue("number", <<"4", "2">>),
      JsValue("boolean", <<"t", "r", "u", "e">>),
      JsValue("null", <<"n", "u", "l", "l">>),
      JsValue("object", <<"{", "\"", "k", "\"", ":", "\"", "v", "\"", "}">>) }

NoDescribe ==
    [List |-> [mounted |-> FALSE, renders |-> 0, given |-> FALSE, items |-> <<>>],
     ListItem |-> [mounted |-> FALSE, renders |-> 0, value |-> JsUndefined]]

ListMarkerKept(old, given, items) ==
    IF given /\ Len(items) > 0 THEN JsonStringifyArray(items) ELSE old

(* if (items && items.length > 0) setAttribute(..., JSON.stringify(items))  *)
(* else removeAttribute(...)                                                *)
ListMarker(old, given, items) ==
    IF given /\ Len(items) > 0 THEN JsonStringifyArray(items) ELSE Null

(* if (value !== undefined) setAttribute(..., typeof value === "object" ?   *)
(* JSON.stringify(value) : String(value)) else removeAttribute(...)         *)
ListItemMarker(old, value) ==
    IF value # JsUndefined
    THEN (IF TypeofObject(value) THEN JsonStringify(value) ELSE String(value))
    ELSE Null

(* the effect of a Describe component d, after the cleanup of its previous  *)
(* run if there was one: registry.unregister(id), then                      *)
(* registry.register(id, element, name, [], description) and the marker     *)
DescribeEffect(d, marker) ==
    LET id == DescribeId(d)
        el == DescribeElement(d)
        before == IF describe[d].mounted THEN MapDelete(components, id) ELSE components
        order == IF describe[d].mounted THEN SelectSeq(insertOrder, LAMBDA k : k # id)
                 ELSE insertOrder
    IN  /\ components' = RegisterSet(before, id, el, <<"b">>, <<>>, Undefined)
        /\ attrs' = [attrs EXCEPT
                       ![el] = [Stamp(@, id, <<"b">>, <<>>, Undefined) EXCEPT !.content = marker]]
        /\ lastReg' = [lastReg EXCEPT ![id] = NewEntry(id, el, <<"b">>, <<>>, Undefined)]
        /\ insertOrder' = IF \E i \in 1..Len(order) : order[i] = id
                          THEN order ELSE Append(order, id)
        /\ lastRegId' = id
        /\ effects' = <<>>
        /\ UNCHANGED <<listening, activeElement, hooks>>
        /\ UNCHANGED hlVars
        /\ UNCHANGED tourVars

(* a render of Describe.List that runs its effect: the mount, or a render   *)
(* with another items prop                                                  *)
RenderList(given, items) ==
    /\ describe.List.renders < MaxRenders
    /\ describe.List.mounted => <<given, items>> # <<describe.List.given, describe.List.items>>
    /\ DescribeEffect("List",
                      ListMarker(attrs[DescribeElement("List")].content, given, items))
    /\ describe' = [describe EXCEPT !.List = [mounted |-> TRUE, renders |-> @.renders + 1,
                                              given |-> given, items |-> items]]
    /\ ret' = Returned("renderList", "registry", <<>>, Undefined)

(* a render of Describe.ListItem that runs its effect *)
RenderListItem(value) ==
    /\ describe.ListItem.renders < MaxRenders
    /\ describe.ListItem.mounted => value # describe.ListItem.value
    /\ DescribeEffect("ListItem",
                      ListItemMarker(attrs[DescribeElement("ListItem")].content, value))
    /\ describe' = [describe EXCEPT !.ListItem = [mounted |-> TRUE, renders |-> @.renders + 1,
                                                  value |-> value]]
    /\ ret' = Returned("renderListItem", "registry", <<>>, Undefined)

(* the unmount of a Describe component: return () => registry.unregister(id) *)
UnmountDescribe(d) ==
    /\ describe[d].mounted
    /\ describe' = [describe EXCEPT ![d] = NoDescribe[d]]
    /\ components' = MapDelete(components, DescribeId(d))
    /\ lastReg' = [lastReg EXCEPT ![DescribeId(d)] = Undefined]
    /\ insertOrder' = SelectSeq(insertOrder, LAMBDA k : k # DescribeId(d))
    /\ effects' = <<>>
    /\ ret' = Returned("unmountDescribe", "registry", <<d>>, Undefined)
    /\ UNCHANGED <<attrs, lastRegId, listening, activeElement, hooks>>
    /\ UNCHANGED hlVars
    /\ UNCHANGED tourVars

---------------------------------------------------------------------------
(* Registry.highlight, the constructor's timer and the teardown timers.     *)
(* A driver instance shows at most one overlay of its own; destroy() tears  *)
(* down the overlay of the instance it is called on and does nothing when   *)
(* that instance shows none.                                                *)

MaxDuration == 2

MaxTime == 3

MaxTimers == 2

Durations == {-1, 0} \cup (1..MaxDuration)

Visible(drivers) == {i \in 1..Len(drivers) : drivers[i].shown # NoElement}

(* driver({...}) *)
NewDriver(byCtor) == [shown |-> NoElement, byCtor |-> byCtor]

(* instance.destroy() *)
DriverDestroy(drivers, inst) == [drivers EXCEPT ![inst].shown = NoElement]

(* instance.highlight({element, popover}) *)
DriverHighlight(drivers, inst, el) == [drivers EXCEPT ![inst].shown = el]

(* the callback of the constructor's setTimeout(..., 0) *)
CtorTimer ==
    /\ ctorPending
    /\ ctorPending' = FALSE
    /\ hlDrivers' = Append(hlDrivers, NewDriver(TRUE))
    /\ hlInst' = Len(hlDrivers) + 1
    /\ effects' = <<DriverCall("driver", Len(hlDrivers) + 1, NoElement)>>
    /\ ret' = Returned("ctorTimer", "registry", <<>>, Undefined)
    /\ UNCHANGED <<timers, now, hlCall>>
    /\ UNCHANGED regVars
    /\ UNCHANGED tourVars

(* if (!this.highlightDriverInstance && typeof window !== "undefined") *)
EnsureDriver(drivers, inst) ==
    IF inst = 0 THEN Append(drivers, NewDriver(FALSE)) ELSE drivers

(* if (duration > 0) setTimeout(() => this.highlightDriverInstance?.destroy(), duration) *)
Superseded(ts) == [i \in 1..Len(ts) |-> [ts[i] EXCEPT !.latest = FALSE]]

ScheduleTeardown(ts, t, duration) ==
    IF duration > 0
    THEN Append(Superseded(ts), [due |-> t + duration, latest |-> TRUE])
    ELSE Superseded(ts)

HighlightDo(via, id, duration) ==
    IF ~ThisIsRegistry(via)
    THEN [ret |-> TypeError("highlight", via, <<id, duration>>), effects |-> <<>>,
          hlInst |-> hlInst, hlDrivers |-> hlDrivers, timers |-> timers, hlCall |-> hlCall]
    ELSE IF ~MapHas(components, id)
    THEN [ret |-> Returned("highlight", via, <<id, duration>>, FALSE),
          effects |-> <<ConsoleError>>,
          hlInst |-> hlInst, hlDrivers |-> hlDrivers, timers |-> timers, hlCall |-> hlCall]
    ELSE LET el == MapGet(components, id).element
             drivers == EnsureDriver(hlDrivers, hlInst)
             inst == IF hlInst = 0 THEN Len(drivers) ELSE hlInst
         IN  [ret |-> Returned("highlight", via, <<id, duration>>, TRUE),
              effects |-> (IF hlInst = 0 THEN <<DriverCall("driver", inst, NoElement)>>
                           ELSE <<>>)
                          \o <<DriverCall("destroy", inst, NoElement),
                               DriverCall("highlight", inst, el)>>,
              hlInst |-> inst,
              hlDrivers |-> DriverHighlight(DriverDestroy(drivers, inst), inst, el),
              timers |-> ScheduleTeardown(timers, now, duration),
              hlCall |-> [id |-> id, element |-> el, inst |-> inst, at |-> now,
                          duration |-> duration, closed |-> FALSE]]

HighlightOverTour(via, id, duration) ==
    /\ duration > 0 => Len(timers) < MaxTimers
    /\ LET do == HighlightDo(via, id, duration)
           shows == ThisIsRegistry(via) /\ MapHas(components, id)
       IN  /\ ret' = do.ret
           /\ effects' = do.effects
           /\ hlInst' = do.hlInst
           /\ hlDrivers' = do.hlDrivers
           /\ timers' = do.timers
           /\ hlCall' = do.hlCall
           /\ tours' = IF shows THEN [i \in 1..Len(tours) |-> [driving |-> FALSE]]
                        ELSE tours
           /\ activeTour' = IF shows THEN FALSE ELSE activeTour
    /\ UNCHANGED <<tourInst, tourSteps, tourDestroys>>
    /\ UNCHANGED <<ctorPending, now>>
    /\ UNCHANGED regVars

Highlight(via, id, duration) ==
    /\ duration > 0 => Len(timers) < MaxTimers
    /\ ret' = HighlightDo(via, id, duration).ret
    /\ effects' = HighlightDo(via, id, duration).effects
    /\ hlInst' = HighlightDo(via, id, duration).hlInst
    /\ hlDrivers' = HighlightDo(via, id, duration).hlDrivers
    /\ timers' = HighlightDo(via, id, duration).timers
    /\ hlCall' = HighlightDo(via, id, duration).hlCall
    /\ UNCHANGED <<ctorPending, now>>
    /\ UNCHANGED regVars
    /\ UNCHANGED tourVars

(* highlight when the overlay engine throws *)

HighlightFaults == {"driver", "destroy", "highlight"}

(* highlight has no try block: what the engine throws leaves highlight as   *)
(* it was thrown                                                            *)
Propagated(op, via, args) ==
    [op |-> op, via |-> via, args |-> args, threw |-> TRUE, val |-> Undefined]

(* highlight(id, duration) on the registry for a registered id, with the    *)
(* engine throwing in driver({...}), in destroy() or in highlight({...}).   *)
(* torn says whether the destroy() that threw had torn the overlay down     *)
(* (for highlight(): whether it had put the new one up).  The statements    *)
(* after the throw, setTimeout among them, do not run.                      *)
HighlightFault(id, duration, fault, torn) ==
    /\ MapHas(components, id)
    /\ fault = "driver" => hlInst = 0 /\ ~torn
    /\ LET el == MapGet(components, id).element
           drivers == EnsureDriver(hlDrivers, hlInst)
           inst == IF hlInst = 0 THEN Len(drivers) ELSE hlInst
           created == IF hlInst = 0 THEN <<DriverCall("driver", inst, NoElement)>> ELSE <<>>
       IN  IF fault = "driver"
           THEN /\ effects' = <<DriverCall("driver", 0, NoElement)>>
                /\ UNCHANGED <<hlInst, hlDrivers>>
           ELSE IF fault = "destroy"
           THEN /\ effects' = created \o <<DriverCall("destroy", inst, NoElement)>>
                /\ hlInst' = inst
                /\ hlDrivers' = IF torn THEN DriverDestroy(drivers, inst) ELSE drivers
           ELSE /\ effects' = created \o <<DriverCall("destroy", inst, NoElement),
                                            DriverCall("highlight", inst, el)>>
                /\ hlInst' = inst
                /\ hlDrivers' = IF torn
                                THEN DriverHighlight(DriverDestroy(drivers, inst), inst, el)
                                ELSE DriverDestroy(drivers, inst)
    /\ ret' = Propagated("highlight", "registry", <<id, duration, fault>>)
    /\ UNCHANGED <<ctorPending, timers, now, hlCall>>
    /\ UNCHANGED regVars
    /\ UNCHANGED tourVars

(* the timers that fire next: the earliest due, the first scheduled among those *)
NextTimer ==
    CHOOSE i \in 1..Len(timers) :
        /\ \A j \in 1..Len(timers) : timers[i].due <= timers[j].due
        /\ \A j \in 1..(i - 1) : timers[j].due > timers[i].due

RemoveAt(seq, i) == [j \in 1..(Len(seq) - 1) |-> IF j < i THEN seq[j] ELSE seq[j + 1]]

(* a teardown timer fires: this.highlightDriverInstance?.destroy() *)
TeardownTimer ==
    /\ ~ctorPending
    /\ Len(timers) > 0
    /\ timers[NextTimer].due <= now
    /\ hlDrivers' = IF hlInst = 0 THEN hlDrivers ELSE DriverDestroy(hlDrivers, hlInst)
    /\ timers' = RemoveAt(timers, NextTimer)
    /\ effects' = IF hlInst = 0 THEN <<>> ELSE <<DriverCall("destroy", hlInst, NoElement)>>
    /\ ret' = Returned("teardownTimer", "registry", <<timers[NextTimer].latest>>, Undefined)
    /\ UNCHANGED <<hlInst, ctorPending, now, hlCall>>
    /\ UNCHANGED regVars
    /\ UNCHANGED tourVars

(* the user closes the overlay of instance inst (allowClose: true).  The    *)
(* instance of the constructor runs its onDestroyStarted hook, which        *)
(* destroys this.highlightDriverInstance; the instance made by highlight    *)
(* has no hook and destroys itself.                                         *)
UserCloseHighlight(inst) ==
    /\ inst \in Visible(hlDrivers)
    /\ LET target == IF hlDrivers[inst].byCtor THEN hlInst ELSE inst
       IN  /\ hlDrivers' = DriverDestroy(hlDrivers, target)
           /\ hlCall' = IF hlCall.inst = target THEN [hlCall EXCEPT !.closed = TRUE]
                        ELSE hlCall
           /\ effects' = <<DriverCall("destroy", target, NoElement)>>
    /\ ret' = Returned("userClose", "registry", <<inst>>, Undefined)
    /\ UNCHANGED <<hlInst, ctorPending, timers, now>>
    /\ UNCHANGED regVars
    /\ UNCHANGED tourVars

(* one tick passes; every timer fires when it is due, so time does not pass *)
(* over a due timer                                                         *)
Tick ==
    /\ now < MaxTime
    /\ ~ctorPending
    /\ \A i \in 1..Len(timers) : timers[i].due > now
    /\ now' = now + 1
    /\ effects' = <<>>
    /\ ret' = Returned("tick", "registry", <<>>, Undefined)
    /\ UNCHANGED <<hlInst, ctorPending, hlDrivers, timers, hlCall>>
    /\ UNCHANGED regVars
    /\ UNCHANGED tourVars

---------------------------------------------------------------------------
(* Registry.startTour and the tour driver *)

MaxSteps == 2

MaxTours == 2

MaxDestroys == 2

PlainStep(id) ==
    [id |-> id, title |-> Undefined, description |-> Undefined,
     position |-> Undefined, align |-> Undefined]

TourStepPool ==
    {PlainStep(<<"k1">>), PlainStep(<<"k3">>)}
    \cup {[id |-> <<"k2">>, title |-> <<"A">>, description |-> <<>>,
           position |-> <<"top">>, align |-> <<"end">>]}

StepLists == UNION {[1..n -> TourStepPool] : n \in 0..MaxSteps}

(* the driver.js step built for a step whose id resolves *)
DriverStep(step, component) ==
    [element |-> component.element,
     popover |-> [title |-> JsOr(step.title, component.name),
                  description |-> JsOr(JsOr(step.description, component.description), <<>>),
                  side |-> JsOr(step.position, <<"bottom">>),
                  align |-> JsOr(step.align, <<"center">>)]]

RECURSIVE DriverStepsAbort(_, _)
DriverStepsAbort(m, steps) ==
    IF Len(steps) = 0 THEN <<>>
    ELSE IF MapHas(m, Head(steps).id)
    THEN <<DriverStep(Head(steps), MapGet(m, Head(steps).id))>>
         \o DriverStepsAbort(m, Tail(steps))
    ELSE <<>>

(* the loop over steps: unknown ids are skipped with a warning *)
RECURSIVE DriverSteps(_, _)
DriverSteps(m, steps) ==
    IF Len(steps) = 0 THEN <<>>
    ELSE IF MapHas(m, Head(steps).id)
    THEN <<DriverStep(Head(steps), MapGet(m, Head(steps).id))>> \o DriverSteps(m, Tail(steps))
    ELSE DriverSteps(m, Tail(steps))

RECURSIVE Warnings(_, _)
Warnings(m, steps) ==
    IF Len(steps) = 0 THEN <<>>
    ELSE IF MapHas(m, Head(steps).id) THEN Warnings(m, Tail(steps))
    ELSE <<Effect("console.warn", NoElement, "", NoDetail)>> \o Warnings(m, Tail(steps))

NoValidStepsNever(driverSteps) == FALSE

(* if (driverSteps.length === 0) *)
NoValidSteps(driverSteps) == Len(driverSteps) = 0

ActiveAfterStale(autoStart, reset, before) == IF autoStart THEN TRUE ELSE before

(* this.activeTour after a call that constructed the driver: set by         *)
(* autoStart, else what the destroy of the previous instance left           *)
ActiveAfter(autoStart, reset, before) == IF autoStart THEN TRUE ELSE reset

ResetActiveKept(inst, before) == before

(* if (this.tourDriverInstance) { ...destroy(); this.activeTour = false; } *)
ResetActive(inst, before) == IF inst # 0 THEN FALSE ELSE before

PreviousIfActive(inst, active) == IF inst # 0 /\ active THEN inst ELSE 0

(* if (this.tourDriverInstance): the instance startTour destroys first, 0 for none *)
Previous(inst, active) == IF inst # 0 THEN inst ELSE 0

StartTourDo(via, steps, autoStart) ==
    LET same == [tourInst |-> tourInst, activeTour |-> activeTour, tours |-> tours,
                 tourSteps |-> tourSteps, tourDestroys |-> tourDestroys]
        args == <<steps, autoStart>>
    IN
    IF ~ThisIsRegistry(via)
    THEN (* this.tourDriverInstance is undefined; this.components.get throws  *)
         (* inside the try block, or no step resolves: logged, false        *)
         [ret |-> Returned("startTour", via, args, FALSE), effects |-> <<ConsoleError>>] @@ same
    ELSE LET prev == Previous(tourInst, activeTour)
             destroyed == IF prev = 0 THEN tours ELSE [tours EXCEPT ![prev].driving = FALSE]
             counted == IF prev = 0 THEN tourDestroys
                        ELSE [tourDestroys EXCEPT ![prev] = @ + 1]
             active1 == ResetActive(tourInst, activeTour)
             destroyCalls == IF prev = 0 THEN <<>>
                             ELSE <<DriverCall("destroy", prev, NoElement)>>
             driverSteps == DriverSteps(components, steps)
             new == Len(tours) + 1
         IN  IF NoValidSteps(driverSteps)
             THEN [ret |-> Returned("startTour", via, args, FALSE),
                   effects |-> destroyCalls \o Warnings(components, steps) \o <<ConsoleError>>,
                   tourInst |-> tourInst, activeTour |-> active1, tours |-> destroyed,
                   tourSteps |-> tourSteps, tourDestroys |-> counted]
             ELSE [ret |-> Returned("startTour", via, args, TRUE),
                   effects |-> destroyCalls \o Warnings(components, steps)
                               \o <<DriverCall("driver", new, NoElement)>>
                               \o (IF autoStart THEN <<DriverCall("drive", new, NoElement)>>
                                   ELSE <<>>),
                   tourInst |-> new,
                   activeTour |-> ActiveAfter(autoStart, active1, activeTour),
                   tours |-> Append(destroyed, [driving |-> autoStart]),
                   tourSteps |-> driverSteps,
                   tourDestroys |-> Append(counted, 0)]

StartTour(via, steps, autoStart) ==
    /\ ThisIsRegistry(via) =>
          /\ tourInst # 0 => tourDestroys[tourInst] < MaxDestroys
          /\ ~NoValidSteps(DriverSteps(components, steps)) => Len(tours) < MaxTours
    /\ LET do == StartTourDo(via, steps, autoStart)
       IN  /\ ret' = do.ret
           /\ effects' = do.effects
           /\ tourInst' = do.tourInst
           /\ activeTour' = do.activeTour
           /\ tours' = do.tours
           /\ tourSteps' = do.tourSteps
           /\ tourDestroys' = do.tourDestroys
    /\ UNCHANGED regVars
    /\ UNCHANGED hlVars

UserCloseTourKeepFlag(inst) ==
    /\ inst \in 1..Len(tours)
    /\ tours[inst].driving
    /\ tourInst # 0
    /\ tours' = [tours EXCEPT ![tourInst].driving = FALSE]
    /\ effects' = <<DriverCall("destroy", tourInst, NoElement)>>
    /\ ret' = Returned("userCloseTour", "registry", <<inst>>, Undefined)
    /\ UNCHANGED <<tourInst, activeTour, tourSteps, tourDestroys>>
    /\ UNCHANGED regVars
    /\ UNCHANGED hlVars

(* the user closes the tour that instance inst presents (allowClose: true): *)
(* onDestroyStarted destroys this.tourDriverInstance and clears activeTour  *)
UserCloseTour(inst) ==
    /\ inst \in 1..Len(tours)
    /\ tours[inst].driving
    /\ tourInst # 0
    /\ tours' = [tours EXCEPT ![tourInst].driving = FALSE]
    /\ activeTour' = FALSE
    /\ effects' = <<DriverCall("destroy", tourInst, NoElement)>>
    /\ ret' = Returned("userCloseTour", "registry", <<inst>>, Undefined)
    /\ UNCHANGED <<tourInst, tourSteps, tourDestroys>>
    /\ UNCHANGED regVars
    /\ UNCHANGED hlVars

(* startTour when the overlay engine throws inside the try block            *)

Faults == {"destroy", "driver", "drive"}

Uncaught(op, via, args) == TypeError(op, via, args)

(* catch (error) { console.error(...); return false; } *)
Caught(op, via, args) == Returned(op, via, args, FALSE)

(* startTour(steps, autoStart) on the registry, with the engine throwing in *)
(* the destroy() of the previous instance, in driver({...}) or in drive().  *)
(* How far the engine got before it threw is not the registry's to decide:  *)
(* torn says whether destroy() had torn the overlay down (drive(): had put  *)
(* it up), hook whether destroy() had run the onDestroyed hook.             *)
StartTourFault(steps, autoStart, fault, torn, hook) ==
    LET args == <<steps, autoStart, fault>>
        prev == Previous(tourInst, activeTour)
        destroyCalls == IF prev = 0 THEN <<>> ELSE <<DriverCall("destroy", prev, NoElement)>>
        destroyed == IF prev = 0 THEN tours ELSE [tours EXCEPT ![prev].driving = FALSE]
        counted == IF prev = 0 THEN tourDestroys ELSE [tourDestroys EXCEPT ![prev] = @ + 1]
        active1 == ResetActive(tourInst, activeTour)
        driverSteps == DriverSteps(components, steps)
        new == Len(tours) + 1
    IN
    /\ tourInst # 0 => tourDestroys[tourInst] < MaxDestroys
    /\ ret' = Caught("startTour", "registry", args)
    /\ \/ /\ fault = "destroy"
          /\ prev # 0
          /\ effects' = destroyCalls \o <<ConsoleError>>
          /\ tours' = IF torn THEN destroyed ELSE tours
          /\ activeTour' = IF hook THEN FALSE ELSE activeTour
          /\ tourDestroys' = counted
          /\ UNCHANGED <<tourInst, tourSteps>>
       \/ /\ fault = "driver"
          /\ ~torn /\ ~hook
          /\ ~NoValidSteps(driverSteps)
          /\ effects' = destroyCalls \o Warnings(components, steps)
                         \o <<DriverCall("driver", 0, NoElement), ConsoleError>>
          /\ tours' = destroyed
          /\ activeTour' = active1
          /\ tourDestroys' = counted
          /\ UNCHANGED <<tourInst, tourSteps>>
       \/ /\ fault = "drive"
          /\ ~hook
          /\ autoStart
          /\ ~NoValidSteps(driverSteps)
          /\ Len(tours) < MaxTours
          /\ effects' = destroyCalls \o Warnings(components, steps)
                         \o <<DriverCall("driver", new, NoElement),
                              DriverCall("drive", new, NoElement), ConsoleError>>
          /\ tourInst' = new
          /\ tours' = Append(destroyed, [driving |-> torn])
          /\ activeTour' = active1
          /\ tourSteps' = driverSteps
          /\ tourDestroys' = Append(counted, 0)
    /\ UNCHANGED regVars
    /\ UNCHANGED hlVars

---------------------------------------------------------------------------
(* The state after the module is loaded: new Registry() has run, its 0 ms   *)
(* timer is pending, nothing is registered.                                  *)

NoCall == [id |-> Undefined, element |-> NoElement, inst |-> 0, at |-> 0,
           duration |-> 0, closed |-> FALSE]

InitOverlays ==
    /\ hlInst = 0
    /\ ctorPending = TRUE
    /\ hlDrivers = <<>>
    /\ timers = <<>>
    /\ now = 0
    /\ hlCall = NoCall
    /\ tourInst = 0
    /\ activeTour = FALSE
    /\ tours = <<>>
    /\ tourSteps = <<>>
    /\ tourDestroys = <<>>

Init ==
    /\ components = <<>>
    /\ attrs = [e \in Elements |-> NoAttrs]
    /\ listening = {}
    /\ hooks = NoHooks
    /\ describe = NoDescribe
    /\ activeElement = NoElement
    /\ lastReg = [k \in RegIds |-> Undefined]
    /\ insertOrder = <<>>
    /\ lastRegId = Undefined
    /\ effects = <<>>
    /\ ret = Returned("new", "registry", <<>>, Undefined)
    /\ InitOverlays

Next ==
    \/ \E id \in RegIds, el \in Elements, name \in RegNames,
          actions \in ActionLists, description \in RegDescriptions :
            Register(id, el, name, actions, description)
    \/ \E id \in RegIds : Unregister(id)
    \/ \E q \in RegQueries : Find("registry", q)

Spec == Init /\ [][Next]_vars


---------------------------------------------------------------------------
(* find over a registry of two entries, the first with an arbitrary name,   *)
(* queried with arbitrary queries.                                          *)

FindNames == Strs(MaxLen)

FindDescriptions == {Undefined, <<>>, <<"b", "A">>}

FindQueries == Strs(MaxLen)

(* register(k1, e1, n1, [], d1) then register(k2, e2, n2, [], d2) on a new  *)
(* registry and fresh elements                                              *)
TwoRegistered(n1, d1, n2, d2) ==
    /\ components = <<NewEntry(<<"k1">>, "e1", n1, <<>>, d1),
                      NewEntry(<<"k2">>, "e2", n2, <<>>, d2)>>
    /\ attrs = [e \in Elements |->
                  IF e = "e1" THEN Stamp(NoAttrs, <<"k1">>, n1, <<>>, d1)
                  ELSE Stamp(NoAttrs, <<"k2">>, n2, <<>>, d2)]
    /\ lastReg = [k \in RegIds |-> MapGet(components, k)]
    /\ insertOrder = <<<<"k1">>, <<"k2">>>>
    /\ lastRegId = <<"k2">>
    /\ listening = {}
    /\ hooks = NoHooks
    /\ describe = NoDescribe
    /\ activeElement = NoElement
    /\ effects = <<>>
    /\ ret = Returned("register", "registry", <<<<"k2">>>>, <<"k2">>)

InitFind ==
    /\ \E n1 \in FindNames, d1 \in FindDescriptions,
          n2 \in RegNames, d2 \in RegDescriptions :
            TwoRegistered(n1, d1, n2, d2)
    /\ InitOverlays

NextFind == \E q \in FindQueries : Find("registry", q)

SpecFind == InitFind /\ [][NextFind]_vars

---------------------------------------------------------------------------
(* C1: the map holds at most one entry per id, and every entry is exactly   *)
(* what the latest register call of its id supplied (element, name,         *)
(* description, actions: no merge with an earlier entry); registering an id *)
(* that is present leaves the size of the map unchanged.                    *)
C1_OneEntryPerId ==
    /\ [](/\ \A i, j \in 1..Len(components) :
                components[i].id = components[j].id => i = j
          /\ \A i \in 1..Len(components) :
                components[i] = lastReg[components[i].id])
    /\ [][(ret'.op = "register" /\ MapHas(components, ret'.val))
            => Len(components') = Len(components)]_vars

(* an id registered on e1 has been registered again on e2 under another name *)
C1_Witness ==
    /\ ret.op = "register"
    /\ Len(components) = 1
    /\ components[1].element = "e2"
    /\ attrs["e1"].id = components[1].id
    /\ attrs["e1"].name # components[1].name

(* C2: find(q) returns exactly the entries whose name or description        *)
(* contains q, letters compared without regard to case; none is missing,    *)
(* none is extra or repeated; find("") returns every entry.                 *)
UpperChar(c) == IF c = "a" THEN "A" ELSE IF c = "b" THEN "B" ELSE c

SameLetter(c, d) == c = d \/ UpperChar(c) = d \/ c = UpperChar(d)

ContainsCI(s, q) ==
    \E i \in 0..(Len(s) - Len(q)) : \A j \in 1..Len(q) : SameLetter(s[i + j], q[j])

Wanted(c, q) ==
    \/ ContainsCI(c.name, q)
    \/ (c.description # Undefined /\ ContainsCI(c.description, q))

C2_FindExact ==
    (ret.op = "find" /\ ~ret.threw) =>
        LET q == ret.args[1]
            r == ret.val
        IN  /\ \A i \in 1..Len(components) :
                  Wanted(components[i], q) <=> (\E j \in 1..Len(r) : r[j] = components[i])
            /\ \A j \in 1..Len(r) : \E i \in 1..Len(components) : r[j] = components[i]
            /\ \A j, k \in 1..Len(r) : r[j] = r[k] => j = k
            /\ (q = <<>> => r = components)

(* a query with a capital letter matched one entry through its description only *)
C2_Witness ==
    /\ ret.op = "find"
    /\ ~ret.threw
    /\ Len(ret.val) = 1
    /\ ret.args[1] # toLowerCase(ret.args[1])
    /\ Len(ret.args[1]) = 2
    /\ ~ContainsCI(ret.val[1].name, ret.args[1])
    /\ \E i \in 1..Len(components) : components[i].description = Undefined

(* C3: find returns its matches in the order in which their ids were        *)
(* inserted into the map.                                                   *)
PosIn(seq, k) == CHOOSE i \in 1..Len(seq) : seq[i] = k

C3_FindOrder ==
    (ret.op = "find" /\ ~ret.threw) =>
        \A i, j \in 1..Len(ret.val) :
            i < j => PosIn(insertOrder, ret.val[i].id) < PosIn(insertOrder, ret.val[j].id)

(* find returned two entries and the first of them was registered again     *)
(* after the second had been inserted                                       *)
C3_Witness ==
    /\ ret.op = "find"
    /\ Len(ret.val) = 2
    /\ lastRegId = ret.val[1].id
    /\ insertOrder = <<<<"k2">>, <<"k1">>>>


---------------------------------------------------------------------------
(* execute and focus, called on the registry and through window.hlas, on a  *)
(* registry that holds k1 and k2 and not k3.                                *)

InitExec ==
    /\ TwoRegistered(<<"A", "b">>, Undefined, <<"b">>, <<"b", "A">>)
    /\ InitOverlays

NextExec ==
    \/ \E via \in Receivers, id \in Ids, actionId \in ExecActionIds, params \in ExecParams :
            Execute(via, id, actionId, params)
    \/ \E via \in Receivers, id \in Ids : Focus(via, id)
    \/ \E via \in Receivers, q \in RegQueries : Find(via, q)
    \/ \E via \in Receivers, id \in Ids : Highlight(via, id, 0)
    \/ \E el \in Elements : AddEventListener(el)
    \/ \E el \in Elements : RemoveEventListener(el)

SpecExec == InitExec /\ [][NextExec]_vars

Dispatches == SelectSeq(effects, LAMBDA e : e.call = "dispatchEvent")

(* C4: execute on a registered id returns true and dispatches exactly one   *)
(* hlas:execute event on the entry's element, with detail                   *)
(* {id, actionId, params} and params an empty object when omitted, whether  *)
(* or not a listener is attached; on an unregistered id it returns false    *)
(* and dispatches nothing.                                                  *)
C4_ExecuteDispatch ==
    (ret.op = "execute" /\ ret.via = "registry") =>
        LET id == ret.args[1]
            actionId == ret.args[2]
            params == ret.args[3]
        IN  /\ ~ret.threw
            /\ IF MapHas(components, id)
               THEN /\ ret.val = TRUE
                    /\ Len(Dispatches) = 1
                    /\ Dispatches[1].target = MapGet(components, id).element
                    /\ Dispatches[1].type = "hlas:execute"
                    /\ Dispatches[1].detail.id = id
                    /\ Dispatches[1].detail.actionId = actionId
                    /\ Dispatches[1].detail.params =
                          (IF params = Undefined THEN EmptyObject ELSE params)
               ELSE /\ ret.val = FALSE
                    /\ Len(Dispatches) = 0

(* execute without params returned true on an element that has no listener *)
C4_Witness ==
    /\ ret.op = "execute"
    /\ ret.via = "registry"
    /\ ret.val = TRUE
    /\ ret.args[3] = Undefined
    /\ Len(effects) = 1
    /\ effects[1].call = "dispatchEvent"
    /\ effects[1].target \notin listening
    /\ listening # {}

(* C5: every call through window.hlas returns what the same call on the     *)
(* registry returns and has the same effect.                                *)
C5_FacadeForwards ==
    [][ret'.via \in {"index", "part_000"} =>
         /\ ~ret'.threw
         /\ (ret'.op = "find" =>
                ret'.val = find(components, ret'.args[1]))
         /\ (ret'.op = "execute" =>
                /\ ret'.val = ExecuteDo("registry", ret'.args[1], ret'.args[2], ret'.args[3]).ret.val
                /\ effects' = ExecuteDo("registry", ret'.args[1], ret'.args[2], ret'.args[3]).effects)
         /\ (ret'.op = "focus" =>
                /\ ret'.val = FocusDo("registry", ret'.args[1]).ret.val
                /\ effects' = FocusDo("registry", ret'.args[1]).effects
                /\ activeElement' = FocusDo("registry", ret'.args[1]).activeElement)
         /\ (ret'.op = "highlight" =>
                /\ ret'.val = HighlightDo("registry", ret'.args[1], ret'.args[2]).ret.val
                /\ effects' = HighlightDo("registry", ret'.args[1], ret'.args[2]).effects
                /\ hlDrivers' = HighlightDo("registry", ret'.args[1], ret'.args[2]).hlDrivers)]_vars


---------------------------------------------------------------------------
(* highlight on a registry that holds k1 (on e1) and k2 (on e2), from the   *)
(* moment the module is loaded: the constructor's timer is still pending.   *)

InitHL ==
    /\ TwoRegistered(<<"A", "b">>, Undefined, <<"b">>, <<"b", "A">>)
    /\ InitOverlays

NextHL ==
    \/ CtorTimer
    \/ \E id \in Ids, duration \in Durations : Highlight("registry", id, duration)
    \/ TeardownTimer
    \/ \E inst \in 1..2 : UserCloseHighlight(inst)
    \/ Tick

SpecHL == InitHL /\ [][NextHL]_vars


(* C6: at most one highlight overlay is visible, and right after a          *)
(* successful highlight(b) the visible overlay is the one anchored to b's   *)
(* element.                                                                 *)
C6_OneHighlightVisible ==
    /\ Cardinality(Visible(hlDrivers)) <= 1
    /\ (ret.op = "highlight" /\ ~ret.threw /\ ret.val = TRUE) =>
          \A i \in Visible(hlDrivers) :
              hlDrivers[i].shown = MapGet(components, ret.args[1]).element

(* C7: a teardown timer of a highlight call that a later highlight call     *)
(* has superseded changes no overlay when it fires.                         *)
C7_SupersededTimerIsNoOp ==
    [][(ret'.op = "teardownTimer" /\ ret'.args[1] = FALSE) => hlDrivers' = hlDrivers]_vars

(* C8: the overlay of the latest highlight(id, d), d > 0, not closed by the *)
(* user, is visible while less than d ticks have passed since the call and  *)
(* is gone once more than d ticks have passed.                              *)
C8_AutoExpiry ==
    (hlCall.id # Undefined /\ hlCall.duration > 0 /\ ~hlCall.closed) =>
        /\ now < hlCall.at + hlCall.duration =>
              hlDrivers[hlCall.inst].shown = hlCall.element
        /\ now > hlCall.at + hlCall.duration =>
              hlCall.inst \notin Visible(hlDrivers)

(* C9: the latest highlight(id, d), d <= 0, has scheduled no teardown       *)
(* timer, and its overlay is visible for as long as the user does not close *)
(* it.                                                                      *)
C9_Persistent ==
    (hlCall.id # Undefined /\ hlCall.duration <= 0 /\ ~hlCall.closed) =>
        /\ \A i \in 1..Len(timers) : ~timers[i].latest
        /\ hlDrivers[hlCall.inst].shown = hlCall.element


---------------------------------------------------------------------------
(* startTour on a registry that holds k1 (on e1) and k2 (on e2) and not k3 *)

InitTour ==
    /\ TwoRegistered(<<"A", "b">>, Undefined, <<"b">>, <<"b", "A">>)
    /\ InitOverlays

NextTour ==
    \/ \E steps \in StepLists, autoStart \in BOOLEAN :
            StartTour("registry", steps, autoStart)
    \/ \E via \in {"index", "part_000"}, steps \in {<<>>, <<PlainStep(<<"k1">>)>>} :
            StartTour(via, steps, TRUE)
    \/ \E inst \in 1..MaxTours : UserCloseTour(inst)

SpecTour == InitTour /\ [][NextTour]_vars

---------------------------------------------------------------------------
(* startTour: which steps reach the driver, and what the call reports *)

(* the steps of a list whose id is registered, in the order of the list *)
Resolved(steps) ==
    SelectSeq(steps, LAMBDA s : \E i \in 1..Len(components) : components[i].id = s.id)

CallsIn(es, name) == SelectSeq(es, LAMBDA e : e.call = name)

(* C11: a startTour whose list has at least one registered id returns true  *)
(* and builds the tour driver with exactly the registered steps, in the     *)
(* order of the list, each anchored to the element of its entry; every      *)
(* unknown id is skipped with one warning and does not abort the tour.      *)
C11_TourSkipsUnknown ==
    (ret.op = "startTour" /\ ret.via = "registry" /\ Len(Resolved(ret.args[1])) > 0) =>
        LET steps == ret.args[1]
            kept == Resolved(steps)
        IN  /\ ret.val = TRUE
            /\ Len(CallsIn(effects, "driver")) = 1
            /\ CallsIn(effects, "driver")[1].inst = tourInst
            /\ Len(tourSteps) = Len(kept)
            /\ \A i \in 1..Len(kept) :
                  /\ tourSteps[i].element = MapGet(components, kept[i].id).element
                  /\ tourSteps[i].popover.side \in {kept[i].position, <<"bottom">>}
            /\ Len(CallsIn(effects, "console.warn")) = Len(steps) - Len(kept)

(* a list whose first id is unknown and whose second is registered started  *)
(* a tour of one step                                                       *)
C11_Witness ==
    /\ ret.op = "startTour"
    /\ ret.via = "registry"
    /\ ret.val = TRUE
    /\ Len(ret.args[1]) = 2
    /\ ret.args[1][1].id = <<"k3">>
    /\ Len(tourSteps) = 1
    /\ tourSteps[1].element = "e1"

(* C12: a startTour of a list none of whose ids is registered, the empty    *)
(* list included, returns false, constructs no tour driver and leaves       *)
(* activeTour false.                                                        *)
C12_NoValidSteps ==
    [][(ret'.op = "startTour" /\ ret'.via = "registry" /\ Len(Resolved(ret'.args[1])) = 0) =>
          /\ ret'.val = FALSE
          /\ Len(tours') = Len(tours)
          /\ tourInst' = tourInst
          /\ Len(CallsIn(effects', "driver")) = 0
          /\ Len(CallsIn(effects', "drive")) = 0
          /\ activeTour' = FALSE]_vars

(* a list of one unknown id was refused while an earlier tour driver exists *)
C12_Witness ==
    /\ ret.op = "startTour"
    /\ ret.via = "registry"
    /\ ret.val = FALSE
    /\ Len(ret.args[1]) = 1
    /\ tourInst = 1
    /\ Len(tours) = 1
    /\ ~activeTour

(* C13: a startTour with a registered step returns true for either value of *)
(* autoStart and constructs one driver; with autoStart it starts that       *)
(* driver exactly once and activeTour becomes true, without autoStart the   *)
(* driver is not started and activeTour is false.                           *)
C13_AutoStart ==
    [][(ret'.op = "startTour" /\ ret'.via = "registry" /\ Len(Resolved(ret'.args[1])) > 0) =>
          /\ ret'.val = TRUE
          /\ Len(tours') = Len(tours) + 1
          /\ tourInst' = Len(tours')
          /\ IF ret'.args[2]
             THEN /\ Len(CallsIn(effects', "drive")) = 1
                  /\ CallsIn(effects', "drive")[1].inst = tourInst'
                  /\ tours'[tourInst'].driving
                  /\ activeTour'
             ELSE /\ Len(CallsIn(effects', "drive")) = 0
                  /\ ~tours'[tourInst'].driving
                  /\ ~activeTour']_vars

(* a tour built without autoStart has replaced an earlier tour *)
C13_Witness ==
    /\ ret.op = "startTour"
    /\ ret.via = "registry"
    /\ ret.val = TRUE
    /\ ret.args[2] = FALSE
    /\ tourInst = 2
    /\ tourDestroys[1] = 1
    /\ ~activeTour

(* what the user sees of the overlays: per instance, the highlighted        *)
(* element and whether the tour is presenting                               *)
Shown(drivers) == [i \in 1..Len(drivers) |-> drivers[i].shown]

Driving(ts) == [i \in 1..Len(ts) |-> ts[i].driving]

(* C14: a call of unregister, execute, focus, highlight or startTour that   *)
(* returns false has changed nothing: the map, what the highlight overlay   *)
(* and the tour show, and activeTour are as before the call.                *)
C14_FalseMeansNothingHappened ==
    [][(/\ ret'.op \in {"unregister", "execute", "focus", "highlight", "startTour"}
        /\ ~ret'.threw
        /\ ret'.val = FALSE) =>
          /\ components' = components
          /\ Shown(hlDrivers') = Shown(hlDrivers)
          /\ Driving(tours') = Driving(tours)
          /\ activeTour' = activeTour]_vars

---------------------------------------------------------------------------
(* startTour with an overlay engine that can throw *)

FaultStepLists ==
    {<<PlainStep(<<"k3">>)>>, <<PlainStep(<<"k1">>)>>,
     <<PlainStep(<<"k3">>), PlainStep(<<"k2">>)>>}

NextTourFault ==
    \/ \E steps \in FaultStepLists, autoStart \in BOOLEAN :
            StartTour("registry", steps, autoStart)
    \/ \E inst \in 1..MaxTours : UserCloseTour(inst)
    \/ \E steps \in FaultStepLists, autoStart \in BOOLEAN, fault \in Faults,
          torn \in BOOLEAN, hook \in BOOLEAN :
            StartTourFault(steps, autoStart, fault, torn, hook)

SpecTourFault == InitTour /\ [][NextTourFault]_vars

Threw == ret.op = "startTour" /\ Len(ret.args) = 3

---------------------------------------------------------------------------
(* highlight and startTour on the same registry: k1 and k2 are registered,  *)
(* the constructor's timer is pending                                       *)

BothDurations == {0, 1}

BothStepLists == {<<PlainStep(<<"k1">>)>>, <<PlainStep(<<"k3">>)>>}

NextBoth ==
    \/ CtorTimer
    \/ \E duration \in BothDurations : Highlight("registry", <<"k1">>, duration)
    \/ TeardownTimer
    \/ \E inst \in 1..2 : UserCloseHighlight(inst)
    \/ Tick
    \/ \E steps \in BothStepLists : StartTour("registry", steps, TRUE)
    \/ \E inst \in 1..MaxTours : UserCloseTour(inst)

SpecBoth == InitHL /\ [][NextBoth]_vars

(* C16: highlight, its teardown timers, the constructor's timer and the     *)
(* closing of a highlight leave the tour driver, what it presents and       *)
(* activeTour as they are; startTour and the closing of a tour leave the    *)
(* highlight driver, what it shows and its timers as they are.              *)
C16_OverlaysIndependent ==
    [][/\ ret'.op \in {"highlight", "teardownTimer", "ctorTimer", "userClose"} =>
            /\ tourInst' = tourInst
            /\ tours' = tours
            /\ tourSteps' = tourSteps
            /\ activeTour' = activeTour
       /\ ret'.op \in {"startTour", "userCloseTour"} =>
            /\ hlInst' = hlInst
            /\ hlDrivers' = hlDrivers
            /\ timers' = timers]_vars

(* a teardown timer has fired, and removed the highlight, while a tour is   *)
(* presenting                                                               *)
C16_Witness ==
    /\ ret.op = "teardownTimer"
    /\ Len(effects) = 1
    /\ effects[1].call = "destroy"
    /\ Visible(hlDrivers) = {}
    /\ hlCall.id # Undefined
    /\ activeTour
    /\ tourInst # 0
    /\ tours[tourInst].driving

---------------------------------------------------------------------------
(* Components that mount and unmount while the registry is used: registry   *)
(* churn together with every operation that reads the map.                  *)

(* k1 mounts on e1 with two actions or on e2 with none, k2 on e2 *)
LifeRegs ==
    {[id |-> <<"k1">>, element |-> "e1", actions |-> <<ActionX, ActionY>>],
     [id |-> <<"k1">>, element |-> "e2", actions |-> <<>>],
     [id |-> <<"k2">>, element |-> "e2", actions |-> <<>>]}

LifeSteps == <<PlainStep(<<"k1">>), PlainStep(<<"k2">>)>>

NextLife ==
    \/ \E r \in LifeRegs : Register(r.id, r.element, <<"b">>, r.actions, Undefined)
    \/ \E id \in RegIds : Unregister(id)
    \/ Find("registry", <<>>)
    \/ ReadScreen("registry")
    \/ \E id \in RegIds, actionId \in ExecActionIds :
            Execute("registry", id, actionId, Undefined)
    \/ \E id \in RegIds : Focus("registry", id)
    \/ \E id \in RegIds : Highlight("registry", id, 0)
    \/ CtorTimer
    \/ (tourInst = 0 /\ StartTour("registry", LifeSteps, TRUE))

SpecLife == Init /\ [][NextLife]_vars

(* C17: unregister(id) returns true exactly when id had an entry, removes   *)
(* that entry and no other, keeps the order of the others, and leaves the   *)
(* markers on every element and both overlays as they are.                  *)
C17_UnregisterFrame ==
    [][ret'.op = "unregister" =>
          LET id == ret'.args[1]
              others == {j \in 1..Len(components) : components[j].id # id}
          IN  /\ ret'.val = (\E j \in 1..Len(components) : components[j].id = id)
              /\ Len(components') = Cardinality(others)
              /\ \A j \in 1..Len(components') :
                    /\ components'[j].id # id
                    /\ \E k \in others : components'[j] = components[k]
              /\ \A j, k \in others : j < k =>
                    \E a, b \in 1..Len(components') :
                        a < b /\ components'[a] = components[j] /\ components'[b] = components[k]
              /\ attrs' = attrs
              /\ <<hlInst', hlDrivers', timers'>> = <<hlInst, hlDrivers, timers>>
              /\ <<tourInst', tours', tourSteps', activeTour'>> =
                    <<tourInst, tours, tourSteps, activeTour>>]_vars

(* k1 has been unregistered while it was highlighted and toured: k2 is      *)
(* still registered, the markers of k1 are still on e1, and both overlays   *)
(* are still up                                                             *)
C17_Witness ==
    /\ ret.op = "unregister"
    /\ ret.val = TRUE
    /\ ret.args[1] = <<"k1">>
    /\ Len(components) = 1
    /\ components[1].id = <<"k2">>
    /\ attrs["e1"].id = <<"k1">>
    /\ attrs["e1"].actions # Null
    /\ \E i \in Visible(hlDrivers) : hlDrivers[i].shown = "e1"
    /\ activeTour
    /\ Len(tourSteps) = 2

(* C18: every operation sees the map as the register and unregister calls   *)
(* made so far have left it: find and readScreen list exactly the ids       *)
(* registered and not unregistered, with the data of their latest register  *)
(* call; execute, focus and highlight return true on exactly those ids and  *)
(* act on the element of the latest register call; startTour keeps exactly  *)
(* the steps of those ids.                                                  *)
Present(id) == \E i \in 1..Len(insertOrder) : insertOrder[i] = id

C18_ImmediateVisibility ==
    /\ (ret.op \in {"find", "readScreen"}) =>
          /\ [i \in 1..Len(ret.val) |-> ret.val[i].id] = insertOrder
          /\ \A i \in 1..Len(ret.val) :
                /\ ret.val[i].name = lastReg[ret.val[i].id].name
                /\ ret.val[i].actions = lastReg[ret.val[i].id].actions
    /\ (ret.op \in {"execute", "focus", "highlight"}) =>
          /\ ret.val = Present(ret.args[1])
          /\ Present(ret.args[1]) =>
                \E i \in 1..Len(effects) :
                    /\ effects[i].call = (IF ret.op = "execute" THEN "dispatchEvent" ELSE ret.op)
                    /\ effects[i].target = lastReg[ret.args[1]].element
    /\ (ret.op = "startTour") =>
          LET kept == SelectSeq(ret.args[1], LAMBDA st : Present(st.id))
          IN  /\ ret.val = (Len(kept) > 0)
              /\ ret.val => /\ Len(tourSteps) = Len(kept)
                             /\ \A i \in 1..Len(kept) :
                                   tourSteps[i].element = lastReg[kept[i].id].element

(* a tour was started after k2 had been unregistered and k1 had moved from  *)
(* e1 to e2: it has the one step of k1, on e2                               *)
C18_Witness ==
    /\ ret.op = "startTour"
    /\ ret.val = TRUE
    /\ Len(tourSteps) = 1
    /\ tourSteps[1].element = "e2"
    /\ attrs["e2"].id = <<"k2">>
    /\ attrs["e1"].id = <<"k1">>
    /\ ~Present(<<"k2">>)

(* C20: execute on a registered id dispatches the event and returns true    *)
(* whatever the actionId, be it one of the entry's declared actions or not. *)
C20_NoActionValidation ==
    (ret.op = "execute" /\ Present(ret.args[1])) =>
        /\ ret.val = TRUE
        /\ Len(CallsIn(effects, "dispatchEvent")) = 1
        /\ CallsIn(effects, "dispatchEvent")[1].detail.actionId = ret.args[2]

(* an action id that the entry does not declare was dispatched on an entry  *)
(* that declares two other actions                                          *)
C20_Witness ==
    /\ ret.op = "execute"
    /\ ret.val = TRUE
    /\ Present(ret.args[1])
    /\ Len(lastReg[ret.args[1]].actions) = 2
    /\ \A i \in 1..2 : lastReg[ret.args[1]].actions[i].id # ret.args[2]
    /\ Len(effects) = 1
    /\ effects[1].detail.actionId = ret.args[2]

---------------------------------------------------------------------------
(* Every component registers on its own element and registers again when    *)
(* its name, description or actions change.                                 *)

ElementOf(id) == IF id = <<"k1">> THEN "e1" ELSE "e2"

NextMarkers ==
    \/ \E id \in RegIds, name \in RegNames, actions \in ActionLists,
          description \in RegDescriptions :
            Register(id, ElementOf(id), name, actions, description)
    \/ \E id \in RegIds : Unregister(id)
    \/ ReadScreen("registry")

SpecMarkers == Init /\ [][NextMarkers]_vars

(* C19: the element of every entry carries markers that mirror the entry:   *)
(* data-hlas-id is the id, data-hlas-name the name, data-hlas-description   *)
(* is present exactly when the entry has a description and is that          *)
(* description, data-hlas-actions is present exactly when the entry has     *)
(* actions and is their ids joined by commas.                               *)
C19_MarkersMirrorEntry ==
    \A i \in 1..Len(components) :
        LET c == components[i]
            a == attrs[c.element]
        IN  /\ a.id = c.id
            /\ a.name = c.name
            /\ (a.description # Null) <=> (c.description # Undefined)
            /\ (c.description # Undefined) => a.description = c.description
            /\ (a.actions # Null) <=> (Len(c.actions) > 0)
            /\ (Len(c.actions) > 0) => a.actions = join(ActionIds(c.actions))

---------------------------------------------------------------------------
(* focus on the registry that holds k1 (a button) and k2 (a plain div)      *)

---------------------------------------------------------------------------
(* readScreen on a registry whose elements carry content markers *)

ScreenRegs ==
    { <<<<"k1">>, "e1", <<ActionX, ActionY>>, <<"b", "A">>>>,
      <<<<"k2">>, "e1", <<>>, Undefined>> }

NextScreen ==
    \/ \E el \in Elements, text \in ContentTexts : SetContentAttr(el, text)
    \/ \E el \in Elements : RemoveContentAttr(el)
    \/ \E via \in Receivers : ReadScreen(via)
    \/ \E r \in ScreenRegs : Register(r[1], r[2], <<"b">>, r[3], r[4])
    \/ \E id \in RegIds : Unregister(id)

SpecScreen == InitExec /\ [][NextScreen]_vars

(* what the content of an element with marker attr is said to be *)
ContentOf(attr) ==
    IF attr = Null THEN JsValue("undefined", <<>>)
    ELSE IF attr \in {<<"4", "2">>} THEN JsValue("number", attr)
    ELSE IF attr = <<"t", "r", "u", "e">> THEN JsValue("boolean", attr)
    ELSE IF attr = <<"\"", "a", "\"">> THEN JsValue("string", <<"a">>)
    ELSE IF attr \in {<<"{", "\"", "k", "\"", ":", "\"", "v", "\"", "}">>,
                      <<"[", "1", ",", "2", "]">>}
    THEN JsValue("object", attr)
    ELSE JsValue("string", attr)

(* C22: readScreen returns one ScreenComponent per entry of the map, in     *)
(* the map's order and without filtering, each with the entry's id, name,   *)
(* description and actions; content is the parsed value of the element's    *)
(* data-hlas-content marker when it is JSON, the raw string when it is not, *)
(* and undefined when the element has no marker.                            *)
C22_ReadScreen ==
    (ret.op = "readScreen" /\ ret.via = "registry") =>
        /\ ~ret.threw
        /\ Len(ret.val) = Len(components)
        /\ \A i \in 1..Len(components) :
              /\ ret.val[i].id = components[i].id
              /\ ret.val[i].name = components[i].name
              /\ ret.val[i].description = components[i].description
              /\ ret.val[i].actions = components[i].actions
              /\ ret.val[i].content = ContentOf(attrs[components[i].element].content)

(* the same with the empty marker left out *)
C22_ReadScreenNonEmptyMarker ==
    (ret.op = "readScreen" /\ ret.via = "registry") =>
        /\ ~ret.threw
        /\ Len(ret.val) = Len(components)
        /\ \A i \in 1..Len(components) :
              /\ ret.val[i].id = components[i].id
              /\ ret.val[i].name = components[i].name
              /\ ret.val[i].description = components[i].description
              /\ ret.val[i].actions = components[i].actions
              /\ attrs[components[i].element].content # <<>> =>
                    ret.val[i].content = ContentOf(attrs[components[i].element].content)

---------------------------------------------------------------------------
(* the popover of each tour step *)

(* a when it was supplied, else b *)
Supplied(a, b) == IF a \in {Undefined, Null} THEN b ELSE a

(* C26: the popover of each tour step has title = step.title when the step  *)
(* supplies one, else the component's name; description = step.description  *)
(* when supplied, else the component's description, else the empty string;  *)
(* side = step.position when supplied, else "bottom"; align = step.align    *)
(* when supplied, else "center".  A supplied value is used as given, an     *)
(* empty title or description included.                                     *)
C26_PopoverDefaults ==
    (ret.op = "startTour" /\ ret.via = "registry" /\ ret.val = TRUE) =>
        LET kept == Resolved(ret.args[1])
        IN  /\ Len(tourSteps) = Len(kept)
            /\ \A i \in 1..Len(kept) :
                  LET step == kept[i]
                      component == MapGet(components, step.id)
                  IN  /\ tourSteps[i].popover.title = Supplied(step.title, component.name)
                      /\ tourSteps[i].popover.description =
                            Supplied(Supplied(step.description, component.description), <<>>)
                      /\ tourSteps[i].popover.side = Supplied(step.position, <<"bottom">>)
                      /\ tourSteps[i].popover.align = Supplied(step.align, <<"center">>)

(* the same for the steps that supply no empty string *)
C26_PopoverDefaultsNonEmpty ==
    (ret.op = "startTour" /\ ret.via = "registry" /\ ret.val = TRUE) =>
        LET kept == Resolved(ret.args[1])
        IN  /\ Len(tourSteps) = Len(kept)
            /\ \A i \in 1..Len(kept) :
                  LET step == kept[i]
                      component == MapGet(components, step.id)
                  IN  /\ step.title # <<>> =>
                            tourSteps[i].popover.title = Supplied(step.title, component.name)
                      /\ step.description # <<>> =>
                            tourSteps[i].popover.description =
                               Supplied(Supplied(step.description, component.description), <<>>)
                      /\ tourSteps[i].popover.side = Supplied(step.position, <<"bottom">>)
                      /\ tourSteps[i].popover.align = Supplied(step.align, <<"center">>)

---------------------------------------------------------------------------
(* destroying the tour driver again and again *)

(* C25: the tour driver can be destroyed any number of times, by a later    *)
(* startTour or by its own close control, without an exception; after a     *)
(* destruction the destroyed instance presents nothing and the tour-active  *)
(* flag is false (it is true after the step only if the same startTour      *)
(* call went on to start a new tour).                                       *)
C25_DestroyIdempotent ==
    [][Len(CallsIn(effects', "destroy")) > 0 =>
         /\ ~ret'.threw
         /\ \A i \in 1..Len(CallsIn(effects', "destroy")) :
               LET inst == CallsIn(effects', "destroy")[i].inst
               IN  /\ ~tours'[inst].driving
                   /\ tours[inst].driving \/ tours'[inst] = tours[inst]
         /\ activeTour' =>
               /\ ret'.op = "startTour"
               /\ ret'.val = TRUE
               /\ Len(CallsIn(effects', "drive")) = 1
               /\ CallsIn(effects', "drive")[1].inst = tourInst'
               /\ CallsIn(effects', "drive")[1].inst
                     # CallsIn(effects', "destroy")[1].inst]_vars

(* the current tour driver was destroyed a second time by a startTour that  *)
(* found no valid step; the flag is false                                   *)
C25_Witness ==
    /\ tourInst # 0
    /\ tourDestroys[tourInst] = 2
    /\ ret.op = "startTour"
    /\ ret.val = FALSE
    /\ Len(CallsIn(effects, "destroy")) = 1
    /\ ~activeTour
    /\ ~tours[tourInst].driving

---------------------------------------------------------------------------
(* highlight with an overlay engine that may throw *)

FaultDurations == {0, 1}

NextHLFault ==
    \/ CtorTimer
    \/ \E id \in Ids, duration \in FaultDurations : Highlight("registry", id, duration)
    \/ \E id \in RegIds, duration \in FaultDurations, fault \in HighlightFaults,
          torn \in BOOLEAN : HighlightFault(id, duration, fault, torn)
    \/ TeardownTimer
    \/ \E inst \in 1..2 : UserCloseHighlight(inst)
    \/ Tick

SpecHLFault == InitHL /\ [][NextHLFault]_vars

(* C27: when the overlay engine throws while highlight creates the driver,  *)
(* tears the previous overlay down or shows the new one, highlight catches  *)
(* it: it logs the failure and returns false, and no exception reaches the  *)
(* caller.                                                                  *)
C27_HighlightCatchesEngineFailure ==
    (ret.op = "highlight" /\ ret.via = "registry" /\ Len(ret.args) = 3) =>
        /\ ~ret.threw
        /\ ret.val = FALSE
        /\ Len(CallsIn(effects, "console.error")) = 1

---------------------------------------------------------------------------
(* a running tour and the registrations made after it started *)

(* C30: the steps of a tour are resolved against the map when startTour is  *)
(* called and keep no step id: a later register (one that puts a step's id  *)
(* on another element included) or unregister of a step's id changes        *)
(* neither the step sequence of the running tour nor the tour-active flag.  *)
C30_TourStepsNotRetained ==
    /\ [](\A i \in 1..Len(tourSteps) : DOMAIN tourSteps[i] = {"element", "popover"})
    /\ [][ret'.op \in {"register", "unregister"} =>
            /\ tourSteps' = tourSteps
            /\ activeTour' = activeTour
            /\ tourInst' = tourInst
            /\ tours' = tours]_vars

(* the tour over k1 and k2 started while k1 was on e1; k1 has since been    *)
(* registered on e2 and k2 unregistered, and the tour still runs on e1, e2  *)
C30_Witness ==
    /\ activeTour
    /\ Len(tourSteps) = 2
    /\ tourSteps[1].element = "e1"
    /\ MapHas(components, <<"k1">>)
    /\ MapGet(components, <<"k1">>).element = "e2"
    /\ ~MapHas(components, <<"k2">>)
    /\ ret.op = "unregister"
    /\ ret.args[1] = <<"k2">>

---------------------------------------------------------------------------
(* components that mount, render again and unmount, and execute calls made  *)
(* in between                                                               *)

HookActionIds == {<<"x">>, <<"z">>, <<"toString">>}

HookParams == {Undefined, <<"{value:42}">>}

NextHook ==
    \/ \E o \in Owners, name \in OwnerNames : \E actions \in ActionMaps(o) :
            Mount(o, actions, name)
    \/ \E o \in Owners : Unmount(o)
    \/ \E o \in Owners, name \in OwnerNames : \E actions \in ActionMaps(o) :
            Rerender(o, actions, name)
    \/ \E id \in RegIds, actionId \in HookActionIds, params \in HookParams :
            Execute("registry", id, actionId, params)

SpecHook == Init /\ [][NextHook]_vars

(* the calls of action functions among the effects *)
ActionCalls == SelectSeq(effects, LAMBDA e : e.call = "action")

(* C23: a component that uses useHlasActions is registered when it mounts,  *)
(* on its element, with one schema {id: key, name: key} per key of its      *)
(* action map; when it unmounts its listener is removed and its id is       *)
(* unregistered; execute on an id that is not registered returns false and  *)
(* runs nothing, and no action function of an unmounted component runs.     *)
C23_HookLifecycle ==
    /\ [][(ret'.op = "mount" /\ UsesHook(ret'.args[1])) =>
            LET o == ret'.args[1]
            IN  /\ ~hooks[o].mounted
                /\ hooks'[o].mounted
                /\ MapHas(components', ReactId(o))
                /\ MapGet(components', ReactId(o)).element = RefElement(o)
                /\ MapGet(components', ReactId(o)).name = hooks'[o].name
                /\ Len(MapGet(components', ReactId(o)).actions) = Len(hooks'[o].actions)
                /\ \A i \in 1..Len(hooks'[o].actions) :
                      MapGet(components', ReactId(o)).actions[i] =
                         [id |-> hooks'[o].actions[i], name |-> hooks'[o].actions[i]]]_vars
    /\ [][(ret'.op = "unmount" /\ UsesHook(ret'.args[1])) =>
            /\ ~hooks'[ret'.args[1]].mounted
            /\ ~MapHas(components', ReactId(ret'.args[1]))]_vars
    /\ [](ret.op = "execute" =>
            /\ \A i \in 1..Len(ActionCalls) : hooks[ActionCalls[i].target].mounted
            /\ ~MapHas(components, ret.args[1]) =>
                  (~ret.threw /\ ret.val = FALSE /\ Len(ActionCalls) = 0))

(* X was mounted on e1 and has unmounted; execute on its id returned false  *)
(* and ran nothing                                                          *)
C23_Witness ==
    /\ ret.op = "execute"
    /\ ret.args[1] = ReactId("X")
    /\ ret.args[2] = <<"x">>
    /\ ret.val = FALSE
    /\ ~hooks["X"].mounted
    /\ attrs[RefElement("X")].id = ReactId("X")
    /\ attrs[RefElement("X")].actions = <<"x", ",", "y">>
    /\ Len(ActionCalls) = 0

(* what the listener of o did after it received the event *)
HandlerDid(o) ==
    SelectSeq(effects, LAMBDA e : e.target = o /\ e.call # "listener")

(* C24: when the listener of a component receives an hlas:execute event     *)
(* whose actionId is not a key of the component's current action map, it    *)
(* calls no function and logs one error that names the action id and the    *)
(* component id; when the actionId is a key it calls that action function,  *)
(* once, with the params of the event.                                      *)
C24_HandleExecute ==
    \A i \in 1..Len(effects) :
        effects[i].call = "listener" =>
            LET o == effects[i].target
                actionId == effects[i].detail.actionId
                params == effects[i].detail.params
            IN  IF HasKey(hooks[o].actions, actionId)
                THEN HandlerDid(o) =
                        <<ActionCall(o, hooks[o].actions, actionId, params)>>
                ELSE HandlerDid(o) =
                        <<Effect("console.error", o, "",
                                 [id |-> ReactId(o), actionId |-> actionId,
                                  params |-> Undefined])>>

(* the same for the action ids that name no property of Object.prototype *)
C24_HandleExecuteOwnNames ==
    \A i \in 1..Len(effects) :
        (effects[i].call = "listener" /\ effects[i].detail.actionId # <<"toString">>) =>
            LET o == effects[i].target
                actionId == effects[i].detail.actionId
                params == effects[i].detail.params
            IN  IF HasKey(hooks[o].actions, actionId)
                THEN HandlerDid(o) =
                        <<ActionCall(o, hooks[o].actions, actionId, params)>>
                ELSE HandlerDid(o) =
                        <<Effect("console.error", o, "",
                                 [id |-> ReactId(o), actionId |-> actionId,
                                  params |-> Undefined])>>

(* the component that made the entry e: the one with that id and element *)
MadeBy(e, o) == ReactId(o) = e.id /\ RefElement(o) = e.element

(* C28: an entry is destroyed only by the unregister call of the component  *)
(* whose register call made it: when X has registered id k, Y has then      *)
(* registered k with another element and X unmounts, the entry of Y stays   *)
(* in the map while Y is mounted.                                           *)
C28_OnlyOwnerUnregisters ==
    [][\A i \in 1..Len(components) :
          ~MapHas(components', components[i].id) =>
              /\ ret'.op = "unmount"
              /\ MadeBy(components[i], ret'.args[1])]_vars

(* C29: one execute call runs at most one action function, and only one of  *)
(* the component that is registered under the id of the call: no listener   *)
(* of another registered component runs, whether on an ancestor or on the   *)
(* same element.                                                            *)
C29_AtMostOnceToOwner ==
    ret.op = "execute" =>
        /\ Len(ActionCalls) <= 1
        /\ \A i \in 1..Len(ActionCalls) :
              /\ MapHas(components, ret.args[1])
              /\ MadeBy(MapGet(components, ret.args[1]), ActionCalls[i].target)

(* the same for the components that have their element to themselves *)
C29_AtMostOnceOwnElement ==
    (ret.op = "execute" /\ ~hooks["Z"].mounted) =>
        /\ Len(ActionCalls) <= 1
        /\ \A i \in 1..Len(ActionCalls) :
              /\ MapHas(components, ret.args[1])
              /\ MadeBy(MapGet(components, ret.args[1]), ActionCalls[i].target)

---------------------------------------------------------------------------
(* a mounted component whose actions prop changes *)

(* C31: after the action map of a mounted component has changed, an         *)
(* hlas:execute event on its element is routed to the function of the       *)
(* latest action map; no function of a replaced map is called any more.     *)
C31_LatestActionMap ==
    \A i \in 1..Len(ActionCalls) :
        LET o == ActionCalls[i].target
        IN  /\ hooks[o].mounted
            /\ HasKey(hooks[o].actions, ActionCalls[i].detail.actionId)
            /\ ActionCalls[i].inst = ActionMapNo(hooks[o].actions)

(* X was registered with the map {x, y} and now has the map {x}: execute    *)
(* of x has called the x of the new map                                     *)
C31_Witness ==
    /\ ret.op = "execute"
    /\ ret.args[2] = <<"x">>
    /\ hooks["X"].mounted
    /\ hooks["X"].registered = <<<<"x">>, <<"y">>>>
    /\ hooks["X"].actions = <<<<"x">>>>
    /\ Len(ActionCalls) = 1
    /\ ActionCalls[1].target = "X"
    /\ ActionCalls[1].inst = ActionMapNo(<<<<"x">>>>)

(* C37: while a component registered by useHlasActions is mounted, the      *)
(* action ids of its registry entry, as find and readScreen return them and *)
(* as data-hlas-actions shows them, are the keys of the action map its      *)
(* listener dispatches to, also after the actions prop has changed under    *)
(* the same name and description.                                           *)
C37_EntryActionsAreCurrent ==
    \A o \in Owners :
        (/\ UsesHook(o)
         /\ hooks[o].mounted
         /\ MapHas(components, ReactId(o))
         /\ MadeBy(MapGet(components, ReactId(o)), o)) =>
            /\ ActionIds(MapGet(components, ReactId(o)).actions) = hooks[o].actions
            /\ attrs[RefElement(o)].actions = join(hooks[o].actions)

(* the same as long as the actions prop changes only together with the name *)
C37_EntryActionsAreRegistered ==
    \A o \in Owners :
        (/\ UsesHook(o)
         /\ hooks[o].mounted
         /\ MapHas(components, ReactId(o))
         /\ MadeBy(MapGet(components, ReactId(o)), o)) =>
            /\ ActionIds(MapGet(components, ReactId(o)).actions) = hooks[o].registered
            /\ attrs[RefElement(o)].actions = join(hooks[o].registered)

---------------------------------------------------------------------------
(* a wrapped component that also registers its element *)

NextWrap ==
    \/ \E schema \in WrapSchemas, name \in OwnerNames, description \in RegDescriptions :
          \E actions \in ActionMaps("X") : MountWrapped("X", schema, actions, name, description)
    \/ UnmountWrapped("X")
    \/ \E name \in OwnerNames : \E actions \in ActionMaps("X") : Rerender("X", actions, name)
    \/ \E o \in {"Y", "Z"}, name \in OwnerNames : \E actions \in ActionMaps(o) :
            Mount(o, actions, name)
    \/ \E o \in {"Y", "Z"} : Unmount(o)
    \/ ReadScreen("registry")

SpecWrap == Init /\ [][NextWrap]_vars

(* C32: an element that is wrapped by action(schema, Component) and         *)
(* registered through useHlasActions(actions, name, description) carries    *)
(* after mount data-hlas-action = schema.id, data-hlas-name = schema.name   *)
(* and data-hlas-description = schema.description, and the data-hlas-id     *)
(* that register stamped.                                                   *)
C32_WrapperMarkersAfterMount ==
    [][ret'.op = "mountWrapped" =>
          LET o == ret'.args[1]
              schema == ret'.args[2]
              el == attrs'[RefElement(o)]
          IN  /\ el.action = schema.id
              /\ el.name = schema.name
              /\ Truthy(schema.description) => el.description = schema.description
              /\ el.id = ReactId(o)]_vars

(* what the element carries instead: the name and, when it has one, the     *)
(* description given to the hook                                             *)
C32_HookMarkersAfterMount ==
    [][ret'.op = "mountWrapped" =>
          LET o == ret'.args[1]
              schema == ret'.args[2]
              name == ret'.args[3]
              description == ret'.args[4]
              el == attrs'[RefElement(o)]
          IN  /\ el.action = schema.id
              /\ el.name = name
              /\ Truthy(description) => el.description = description
              /\ (~Truthy(description) /\ Truthy(schema.description)) =>
                     el.description = schema.description
              /\ el.id = ReactId(o)]_vars

---------------------------------------------------------------------------
(* a list and a list item that render with changing props, and readScreen *)

NextDescribe ==
    \/ \E p \in ItemsPool : RenderList(p.given, p.items)
    \/ \E value \in ItemValues : RenderListItem(value)
    \/ \E d \in {"List", "ListItem"} : UnmountDescribe(d)
    \/ ReadScreen("registry")

SpecDescribe == Init /\ [][NextDescribe]_vars

(* the JSON text of the arrays given as items *)
ItemsText(items) ==
    IF items = <<JsValue("number", <<"1">>), JsValue("number", <<"2">>)>>
    THEN <<"[", "1", ",", "2", "]">>
    ELSE IF items = <<JsValue("string", <<"a">>)>>
    THEN <<"[", "\"", "a", "\"", "]">>
    ELSE <<"[", "]">>

(* C33: after any sequence of renders of a Describe.List its element        *)
(* carries data-hlas-content exactly when the current items prop is a       *)
(* non-empty array, and the marker is the JSON text of the current items;   *)
(* the marker is removed when items becomes empty or absent.                *)
C33_ListMarkerIsCurrent ==
    describe.List.mounted =>
        LET marker == attrs[DescribeElement("List")].content
        IN  /\ marker # Null <=> (describe.List.given /\ Len(describe.List.items) > 0)
            /\ marker # Null => marker = ItemsText(describe.List.items)

(* the list has rendered three times and its items are now the empty array: *)
(* the element has no marker                                                *)
C33_Witness ==
    /\ describe.List.mounted
    /\ describe.List.renders = 3
    /\ describe.List.given
    /\ describe.List.items = <<>>
    /\ attrs[DescribeElement("List")].content = Null
    /\ attrs[DescribeElement("List")].id = DescribeId("List")
    /\ ret.op = "renderList"

(* the entry that readScreen returned for the list item *)
ScreenOf(id) ==
    SelectSeq(ret.val, LAMBDA c : c.id = id)

(* C38: the value given to a Describe.ListItem comes back from readScreen:  *)
(* for every value, a string, a number, a boolean or an object, the content *)
(* of the component is that value with its type; a string comes back as     *)
(* that string.                                                             *)
C38_ListItemRoundTrip ==
    (ret.op = "readScreen" /\ describe.ListItem.mounted
        /\ describe.ListItem.value.type \in {"string", "number", "boolean", "object"}) =>
        /\ Len(ScreenOf(DescribeId("ListItem"))) = 1
        /\ ScreenOf(DescribeId("ListItem"))[1].content = describe.ListItem.value

(* the same for the strings that are neither empty nor JSON texts *)
C38_ListItemRoundTripPlain ==
    (ret.op = "readScreen" /\ describe.ListItem.mounted
        /\ describe.ListItem.value.type \in {"string", "number", "boolean", "object"}
        /\ describe.ListItem.value \notin {JsValue("string", <<"4", "2">>),
                                            JsValue("string", <<"t", "r", "u", "e">>),
                                            JsValue("string", <<>>)}) =>
        /\ Len(ScreenOf(DescribeId("ListItem"))) = 1
        /\ ScreenOf(DescribeId("ListItem"))[1].content = describe.ListItem.value

---------------------------------------------------------------------------
(* the highlight driver over the lifetime of the registry *)

(* C34: the registry makes at most one highlight driver instance; once the  *)
(* field holds an instance it is never replaced, and every visible          *)
(* highlight overlay is on the instance the field holds.                    *)
C34_OneHighlightDriver ==
    /\ [](/\ Len(hlDrivers) <= 1
          /\ \A i \in Visible(hlDrivers) : i = hlInst)
    /\ [][hlInst # 0 => hlInst' = hlInst]_vars

(* when the constructor's timer has fired before the first highlight call   *)
(* there is one instance, and every visible overlay is on it                *)
C34_OneDriverWhenTimerFirst ==
    (Len(hlDrivers) > 0 /\ hlDrivers[1].byCtor) =>
        /\ Len(hlDrivers) = 1
        /\ hlInst = 1
        /\ \A i \in Visible(hlDrivers) : i = hlInst

(* highlight with fair timers: the constructor's timer and every teardown   *)
(* timer fire, and time passes.  A timed highlight is called early enough   *)
(* for its timer to fall due within MaxTime.                                *)
HighlightInTime(id, duration) ==
    /\ duration > 0 => now + duration <= MaxTime
    /\ Highlight("registry", id, duration)

NextHLLive ==
    \/ CtorTimer
    \/ \E id \in RegIds, duration \in Durations : HighlightInTime(id, duration)
    \/ TeardownTimer
    \/ \E inst \in 1..2 : UserCloseHighlight(inst)
    \/ Tick

SpecHLLive ==
    /\ InitHL
    /\ [][NextHLLive]_vars
    /\ WF_vars(CtorTimer)
    /\ WF_vars(TeardownTimer)
    /\ WF_vars(Tick)

(* instance i shows the overlay of the latest highlight call, which was     *)
(* given a positive duration                                                *)
TimedOverlayOn(i) ==
    /\ hlCall.id # Undefined
    /\ hlCall.inst = i
    /\ hlCall.duration > 0
    /\ i \in Visible(hlDrivers)

(* instance i shows nothing, or what it shows was put up by a later call    *)
(* that asked for no teardown                                               *)
OverlayGoneFrom(i) ==
    \/ i \notin Visible(hlDrivers)
    \/ (hlCall.inst = i /\ hlCall.duration <= 0)

(* C35: with fair timers, an overlay shown by highlight(id, d), d > 0, is   *)
(* eventually torn down (or replaced by the overlay of a later call): it    *)
(* does not stay visible forever.                                           *)
C35_TimedOverlayTornDown ==
    \A i \in 1..2 : TimedOverlayOn(i) ~> OverlayGoneFrom(i)

(* the same for the overlays on the instance that the constructor's timer   *)
(* made                                                                     *)
C35_TornDownOnTimerDriver ==
    \A i \in 1..2 :
        (TimedOverlayOn(i) /\ hlDrivers[i].byCtor) ~> OverlayGoneFrom(i)

---------------------------------------------------------------------------
=============================================================================
